---------------------------- MODULE Spec2Model ----------------------------
(***************************************************************************)
(* Pending-rewards checker: the permit verification run of src/index.ts    *)
(* (fetch, first pass over every permit, one retry pass over the failed    *)
(* ones, final counts, aggregation and report), with the Permit2 nonce     *)
(* bitmap arithmetic and the provider cache of helpers/web3.ts.            *)
(***************************************************************************)
EXTENDS Integers, Sequences, FiniteSets, TLC

(***************************************************************************)
(* Bounds of the model.                                                    *)
(***************************************************************************)
\* number of permit rows the store returns
MaxPermits == 3

\* number of permit rows in the runs checked for progress under fairness
MaxLivePermits == 2

(***************************************************************************)
(* Values.                                                                 *)
(***************************************************************************)
\* a JavaScript null / undefined field of a row
Null == "null"

\* the null a task returns instead of a PermitData
NULL == [null |-> TRUE]

\* the literal of index.ts:157 and web3.ts:68
UNKNOWN == "UNKNOWN"

\* strings are sequences of one-character strings
DigitChars == {"0", "1", "2", "3", "4", "5", "6", "7", "8", "9"}

DigitVal(c) ==
  CASE c = "0" -> 0 [] c = "1" -> 1 [] c = "2" -> 2 [] c = "3" -> 3
    [] c = "4" -> 4 [] c = "5" -> 5 [] c = "6" -> 6 [] c = "7" -> 7
    [] c = "8" -> 8 [] c = "9" -> 9

DecVal(s) ==
  LET val[t \in {SubSeq(s, 1, k) : k \in 0..Len(s)}] ==
        IF t = <<>> THEN 0
        ELSE val[SubSeq(t, 1, Len(t) - 1)] * 10 + DigitVal(t[Len(t)])
  IN  val[s]

AllDigits(s) == Len(s) > 0 /\ \A k \in 1..Len(s) : s[k] \in DigitChars

HexLetters == {"a", "b", "c", "d", "e", "f", "A", "B", "C", "D", "E", "F"}

HexVal(c) ==
  CASE c \in DigitChars -> DigitVal(c)
    [] c \in {"a", "A"} -> 10 [] c \in {"b", "B"} -> 11 [] c \in {"c", "C"} -> 12
    [] c \in {"d", "D"} -> 13 [] c \in {"e", "E"} -> 14 [] c \in {"f", "F"} -> 15

HexStrVal(s) ==
  LET val[t \in {SubSeq(s, 1, k) : k \in 0..Len(s)}] ==
        IF t = <<>> THEN 0
        ELSE val[SubSeq(t, 1, Len(t) - 1)] * 16 + HexVal(t[Len(t)])
  IN  val[s]

\* /^0x[0-9a-f]+$/i
IsHexString(s) ==
  /\ Len(s) > 2
  /\ s[1] = "0"
  /\ s[2] \in {"x", "X"}
  /\ \A k \in 3..Len(s) : s[k] \in DigitChars \cup HexLetters

\* the magnitude of a string BigNumber.from accepts
UnsignedFrom(s) ==
  IF IsHexString(s) THEN [ok |-> TRUE, val |-> HexStrVal(SubSeq(s, 3, Len(s)))]
  ELSE IF AllDigits(s) THEN [ok |-> TRUE, val |-> DecVal(s)]
       ELSE [ok |-> FALSE, val |-> 0]

\* BigNumber.from(string) of ethers v5: a string /^-?0x[0-9a-f]+$/i or
\* /^-?[0-9]+$/ gives its value, anything else throws
BigNumberFrom(s) ==
  IF Len(s) > 0 /\ s[1] = "-"
  THEN LET m == UnsignedFrom(Tail(s)) IN [ok |-> m.ok, val |-> 0 - m.val]
  ELSE UnsignedFrom(s)

\* nonce.includes(".") ? nonce.split(".")[0] : nonce
RECURSIVE BeforeDot(_)
BeforeDot(s) ==
  IF s = <<>> THEN <<>>
  ELSE IF Head(s) = "." THEN <<>>
       ELSE <<Head(s)>> \o BeforeDot(Tail(s))

cleanNonce(nonce) == BeforeDot(nonce)

RECURSIVE Pow2(_)
Pow2(n) == IF n = 0 THEN 1 ELSE 2 * Pow2(n - 1)

BitXor(a, b) ==
  LET xor[x \in Nat, y \in Nat] ==
        IF x = 0 /\ y = 0 THEN 0
        ELSE (((x % 2) + (y % 2)) % 2) + 2 * xor[x \div 2, y \div 2]
  IN  xor[a, b]

BitAnd(a, b) ==
  LET and[x \in Nat, y \in Nat] ==
        IF x = 0 \/ y = 0 THEN 0
        ELSE ((x % 2) * (y % 2)) + 2 * and[x \div 2, y \div 2]
  IN  and[a, b]

\* BigNumber.shr(k) of a non-negative value: k halvings
RECURSIVE Shr(_, _)
Shr(a, k) == IF k = 0 THEN a ELSE Shr(a \div 2, k - 1)

\* mutant of splitNonce: the nonce is shifted by 7 bits
splitNonceShr7(n) ==
  IF n.ok /\ n.val >= 0
  THEN [ok |-> TRUE, wordPos |-> Shr(n.val, 7), bitPos |-> BitAnd(n.val, 255)]
  ELSE [ok |-> FALSE, wordPos |-> 0, bitPos |-> 0]

\* const wordPos = nonceBigNumber.shr(8);
\* const bitPos = nonceBigNumber.and(255).toNumber();
\* shr and and throw on a negative BigNumber
splitNonce(n) ==
  IF n.ok /\ n.val >= 0
  THEN [ok |-> TRUE, wordPos |-> Shr(n.val, 8), bitPos |-> BitAnd(n.val, 255)]
  ELSE [ok |-> FALSE, wordPos |-> 0, bitPos |-> 0]

\* mutant of nonceBitmap: a nonce that does not parse is taken as 0
nonceBitmapLenient(nonce) ==
  LET n == BigNumberFrom(cleanNonce(nonce)) IN
  IF n.ok /\ n.val >= 0 THEN splitNonce(n)
  ELSE [ok |-> TRUE, wordPos |-> 0, bitPos |-> 0]

\* mutant of nonceBitmap: the string is parsed as it is
nonceBitmapNoTruncation(nonce) == splitNonce(BigNumberFrom(nonce))

\* Permit2Wrapper.nonceBitmap of a string nonce: ok = FALSE when it throws
\* (the parse fails, or shr / and of a negative BigNumber throws)
nonceBitmap(nonce) == splitNonce(BigNumberFrom(cleanNonce(nonce)))

\* BigNumber.from(number) of an integer in the safe range
BigNumberFromNumber(num) == [ok |-> TRUE, val |-> num]

\* Permit2Wrapper.nonceBitmap of a JavaScript number
nonceBitmapOfNumber(num) == splitNonce(BigNumberFromNumber(num))

\* mutant of bitIsClaimed: the test is inverted
bitIsClaimedInverted(bitmap, bitPos) == BitAnd(Pow2(bitPos), bitmap) = 0

\* mutant of bitIsClaimed: the bit is shifted by one place too few
bitIsClaimedOffByOne(bitmap, bitPos) ==
  LET bit == IF bitPos = 0 THEN 1 ELSE Pow2(bitPos - 1)
      flipped == BitXor(bitmap, bit)
  IN  BitAnd(bit, flipped) = 0

\* the claimed test of Permit2Wrapper.isNonceClaimed
bitIsClaimed(bitmap, bitPos) ==
  LET bit == Pow2(bitPos)
      flipped == BitXor(bitmap, bit)
  IN  BitAnd(bit, flipped) = 0

\* Erc20Wrapper.symbol: the contract's answer, or "UNKNOWN" when the call fails
erc20Symbol(resp) == IF resp = "fail" THEN UNKNOWN ELSE resp

\* mutant of resolveTokenSymbol: a failed symbol call is not caught
resolveTokenSymbolThrows(resp) == [threw |-> resp = "fail", tokenSymbol |-> resp]

\* let tokenSymbol = "UNKNOWN"; try { tokenSymbol = await erc20Wrapper.symbol() }
\* catch {}: threw tells whether an exception leaves the inner try
resolveTokenSymbol(resp) == [threw |-> FALSE, tokenSymbol |-> erc20Symbol(resp)]

(***************************************************************************)
(* The store's rows and the external services' answers.                    *)
(***************************************************************************)
RPC_URLS == {1, 100}

\* one verifiable row (nonce 257: word 1, bit 1), a row with no token
\* address, a row on a network with no endpoint, a row with a malformed nonce
PermitRows ==
  { [nonce |-> <<"2", "5", "7">>, amount |-> <<"5", "0", "0">>,
     partnerAddress |-> "A", tokenAddress |-> "T1", userAddress |-> "U1",
     userId |-> 7, network |-> 1],
    [nonce |-> <<"1">>, amount |-> <<"7">>, partnerAddress |-> "B",
     tokenAddress |-> Null, userAddress |-> "U1", userId |-> 7, network |-> 1],
    [nonce |-> <<"2">>, amount |-> <<"9">>, partnerAddress |-> "B",
     tokenAddress |-> "T1", userAddress |-> "U2", userId |-> 8, network |-> 5],
    [nonce |-> <<"a">>, amount |-> <<"3">>, partnerAddress |-> "B",
     tokenAddress |-> "T1", userAddress |-> "U1", userId |-> 7, network |-> 1] }

\* bitmap words the Permit2 contract may hold at a word position
OracleWords(wordPos) == IF wordPos = 0 THEN {0, 1} ELSE {1, 2}

\* nonceBitmap(owner, wordPos) of the contract answers with a word or fails
OracleAnswers(wordPos) ==
  {[ok |-> TRUE, word |-> w] : w \in OracleWords(wordPos)}
    \cup {[ok |-> FALSE, word |-> 0]}

\* const { wordPos, bitPos } = this.nonceBitmap(nonce): the word the attempt
\* of a row asks for and the bit it tests
positionOf(row) == nonceBitmap(row.nonce)

\* the decimal digits of a non-negative number, as `${id}` writes them
RECURSIVE ToDecimal(_)
ToDecimal(n) ==
  LET d == CHOOSE c \in DigitChars : DigitVal(c) = n % 10 IN
  IF n < 10 THEN <<d>> ELSE ToDecimal(n \div 10) \o <<d>>

UnknownUser == <<"U", "n", "k", "n", "o", "w", "n", " ", "U", "s", "e", "r">>

\* `user-${userId}`
userFallback(userId) == <<"u", "s", "e", "r", "-">> \o ToDecimal(userId)

\* the entry of the map fetchGitHubUsernames returns: the login GitHub
\* answers with (user 7), no login at all when the answer carries none
\* (user 9), or the fallback fetchGitHubUsername returns when the request
\* fails (any other user)
githubUsername(userId) ==
  CASE userId = 7 -> <<"a", "l", "i", "c", "e">>
    [] userId = 9 -> <<>>
    [] OTHER -> userFallback(userId)

\* what symbol() of a token contract returns when it answers
TokenSymbol(tokenAddress) == IF tokenAddress = "T1" THEN "T" ELSE "X"

SymbolAnswers(tokenAddress) == {TokenSymbol(tokenAddress), "fail"}

PERMIT2_ADDRESS == "P2"

(***************************************************************************)
(* helpers/web3.ts: the provider and contract caches.                      *)
(***************************************************************************)
\* mutant of getProviderThrows: every network gets a provider
getProviderNeverThrows(networkId, pcache) == FALSE

\* getProvider throws when the network is neither cached nor configured
getProviderThrows(networkId, pcache) ==
  networkId \notin pcache /\ networkId \notin RPC_URLS

\* mutant of getProvider: the new provider is not put in the cache
getProviderNoSet(networkId, pcache) ==
  IF networkId \in pcache
  THEN [threw |-> FALSE, created |-> FALSE, pcache |-> pcache]
  ELSE IF getProviderThrows(networkId, pcache)
       THEN [threw |-> TRUE, created |-> FALSE, pcache |-> pcache]
       ELSE [threw |-> FALSE, created |-> TRUE, pcache |-> pcache]

\* getProvider(networkId): the cached provider, or a new JsonRpcProvider that
\* is put in the cache; created tells whether a provider was constructed
getProvider(networkId, pcache) ==
  IF networkId \in pcache
  THEN [threw |-> FALSE, created |-> FALSE, pcache |-> pcache]
  ELSE IF getProviderThrows(networkId, pcache)
       THEN [threw |-> TRUE, created |-> FALSE, pcache |-> pcache]
       ELSE [threw |-> FALSE, created |-> TRUE, pcache |-> pcache \cup {networkId}]

\* getContract(address, abi, networkId): whether it throws, whether it had a
\* provider constructed, and the caches after the call
getContract(address, networkId, pcache, ccache) ==
  IF <<address, networkId>> \in ccache
  THEN [threw |-> FALSE, created |-> FALSE, pcache |-> pcache, ccache |-> ccache]
  ELSE LET p == getProvider(networkId, pcache) IN
       IF p.threw
       THEN [threw |-> TRUE, created |-> FALSE, pcache |-> p.pcache,
             ccache |-> ccache]
       ELSE [threw |-> FALSE, created |-> p.created, pcache |-> p.pcache,
             ccache |-> ccache \cup {<<address, networkId>>}]

(***************************************************************************)
(* index.ts: one verification attempt, up to its first await.              *)
(***************************************************************************)
Falsy(v) == v = Null \/ v = ""

\* mutant of MissingRequired: no field is checked
MissingRequiredNever(row) == FALSE

\* mutant of MissingRequired: the token address is not checked
MissingRequiredNoToken(row) ==
  \/ Falsy(row.partnerAddress)
  \/ Falsy(row.userAddress)
  \/ row.network = 0

\* if (!partnerAddress || !tokenAddress || !userAddress || !network)
MissingRequired(row) ==
  \/ Falsy(row.partnerAddress)
  \/ Falsy(row.tokenAddress)
  \/ Falsy(row.userAddress)
  \/ row.network = 0

\* the synchronous part of an attempt: "excluded" (returns null before any
\* call), "threw" (getContract throws, the catch block runs at once),
\* "rejects" (nonceBitmap throws inside the async isNonceClaimed: the awaited
\* promise is rejected and the catch block runs as a microtask) or "query"
\* (the nonceBitmap call of the contract is issued and awaited)
attemptStart(row, pcache, ccache) ==
  IF MissingRequired(row)
  THEN [kind |-> "excluded", pcache |-> pcache, ccache |-> ccache]
  ELSE LET c == getContract(PERMIT2_ADDRESS, row.network, pcache, ccache) IN
       IF c.threw
       THEN [kind |-> "threw", pcache |-> c.pcache, ccache |-> c.ccache]
       ELSE IF ~nonceBitmap(row.nonce).ok
            THEN [kind |-> "rejects", pcache |-> c.pcache, ccache |-> c.ccache]
            ELSE [kind |-> "query", pcache |-> c.pcache, ccache |-> c.ccache]

\* mutant of userNameOf: the || `user-${githubUserId}` is left out
userNameNoFallback(row) ==
  IF row.userId = 0 THEN UnknownUser ELSE githubUsername(row.userId)

\* githubUserId ? githubUsernames.get(githubUserId) || `user-${githubUserId}`
\*              : "Unknown User"
userNameOf(row) ==
  IF row.userId = 0 THEN UnknownUser
  ELSE IF githubUsername(row.userId) = <<>> THEN userFallback(row.userId)
       ELSE githubUsername(row.userId)

\* the PermitData an attempt builds; src is the row it was built from
PermitDataOf(i, row, tokenSymbol, isClaimed) ==
  [src |-> i, nonce |-> row.nonce, amount |-> row.amount,
   partnerAddress |-> row.partnerAddress, tokenAddress |-> row.tokenAddress,
   tokenSymbol |-> tokenSymbol, network |-> row.network,
   userAddress |-> row.userAddress, userName |-> userNameOf(row),
   isClaimed |-> isClaimed]

(***************************************************************************)
(* helpers/formatting.ts: the reward totals.                               *)
(***************************************************************************)
\* mutant of formatTokenAmount: the digits before a "." are taken
formatTokenAmountWhole(amount) ==
  LET n == BigNumberFrom(BeforeDot(amount)) IN IF n.ok THEN n.val ELSE 0

\* formatTokenAmount: BigNumber.from(amount), or 0 when it throws
formatTokenAmount(amount) ==
  LET n == BigNumberFrom(amount) IN IF n.ok THEN n.val ELSE 0

\* mutant of tokenKeyOf: the token address is a part of the key
tokenKeyWithAddress(permit) ==
  <<permit.tokenSymbol, " (Network ID: ", permit.network, ")", permit.tokenAddress>>

\* mutant of tokenKeyOf: the network is left out of the key
tokenKeyNoNetwork(permit) == <<permit.tokenSymbol>>

\* `${permit.tokenSymbol} (Network ID: ${permit.network})`
tokenKeyOf(permit) == <<permit.tokenSymbol, " (Network ID: ", permit.network, ")">>

\* mutant of addToTotals: the amount replaces the running sums
addToTotalsOverwrite(walletTotals, wallet, tokenKey, amount) ==
  LET withWallet ==
        IF wallet \in DOMAIN walletTotals THEN walletTotals
        ELSE walletTotals @@
             (wallet :> [wallet |-> wallet, tokenTotals |-> <<>>, grandTotal |-> 0])
      walletData == withWallet[wallet]
  IN  [withWallet EXCEPT ![wallet] =
         [wallet |-> wallet,
          tokenTotals |-> (tokenKey :> amount) @@ walletData.tokenTotals,
          grandTotal |-> amount]]

\* one iteration of the loop of calculateWalletTotals
addToTotals(walletTotals, wallet, tokenKey, amount) ==
  LET withWallet ==
        IF wallet \in DOMAIN walletTotals THEN walletTotals
        ELSE walletTotals @@
             (wallet :> [wallet |-> wallet, tokenTotals |-> <<>>, grandTotal |-> 0])
      walletData == withWallet[wallet]
      withKey ==
        IF tokenKey \in DOMAIN walletData.tokenTotals THEN walletData.tokenTotals
        ELSE walletData.tokenTotals @@ (tokenKey :> 0)
  IN  [withWallet EXCEPT ![wallet] =
         [wallet |-> wallet,
          tokenTotals |-> [withKey EXCEPT ![tokenKey] = @ + amount],
          grandTotal |-> walletData.grandTotal + amount]]

\* the loop of calculateWalletTotals from permit k on; the addressExtractor
\* callback is given as the name of the field it reads
RECURSIVE foldTotals(_, _, _, _)
foldTotals(acc, ps, addressField, k) ==
  IF k > Len(ps) THEN acc
  ELSE foldTotals(addToTotals(acc, ps[k][addressField], tokenKeyOf(ps[k]),
                              formatTokenAmount(ps[k].amount)),
                  ps, addressField, k + 1)

calculateWalletTotals(ps, addressField) == foldTotals(<<>>, ps, addressField, 1)

\* mutant of addToUserTotals: the grand total is left as it is
addToUserTotalsNoGrand(walletTotals, wallet, userName, tokenKey, amount) ==
  LET withWallet ==
        IF wallet \in DOMAIN walletTotals THEN walletTotals
        ELSE walletTotals @@
             (wallet :> [wallet |-> wallet, userName |-> userName,
                         tokenTotals |-> <<>>, grandTotal |-> 0])
      walletData == withWallet[wallet]
      withKey ==
        IF tokenKey \in DOMAIN walletData.tokenTotals THEN walletData.tokenTotals
        ELSE walletData.tokenTotals @@ (tokenKey :> 0)
  IN  [withWallet EXCEPT ![wallet] =
         [wallet |-> wallet,
          userName |-> walletData.userName,
          tokenTotals |-> [withKey EXCEPT ![tokenKey] = @ + amount],
          grandTotal |-> walletData.grandTotal]]

\* one iteration of the loop of calculateUserWalletTotals: the entry of a
\* wallet gets the userName of the permit that creates it
addToUserTotals(walletTotals, wallet, userName, tokenKey, amount) ==
  LET withWallet ==
        IF wallet \in DOMAIN walletTotals THEN walletTotals
        ELSE walletTotals @@
             (wallet :> [wallet |-> wallet, userName |-> userName,
                         tokenTotals |-> <<>>, grandTotal |-> 0])
      walletData == withWallet[wallet]
      withKey ==
        IF tokenKey \in DOMAIN walletData.tokenTotals THEN walletData.tokenTotals
        ELSE walletData.tokenTotals @@ (tokenKey :> 0)
  IN  [withWallet EXCEPT ![wallet] =
         [wallet |-> wallet,
          userName |-> walletData.userName,
          tokenTotals |-> [withKey EXCEPT ![tokenKey] = @ + amount],
          grandTotal |-> walletData.grandTotal + amount]]

\* permit.userName || "Unknown User"
userNameOrUnknown(permit) ==
  IF permit.userName = <<>> THEN UnknownUser ELSE permit.userName

\* the loop of calculateUserWalletTotals from permit k on
RECURSIVE foldUserTotals(_, _, _)
foldUserTotals(acc, ps, k) ==
  IF k > Len(ps) THEN acc
  ELSE foldUserTotals(addToUserTotals(acc, ps[k].userAddress,
                                      userNameOrUnknown(ps[k]), tokenKeyOf(ps[k]),
                                      formatTokenAmount(ps[k].amount)),
                      ps, k + 1)

\* mutant of calculateUserWalletTotals: the loop passes over the first permit
calculateUserWalletTotalsFromSecond(ps) == foldUserTotals(<<>>, ps, 2)

calculateUserWalletTotals(ps) == foldUserTotals(<<>>, ps, 1)

\* mutant of filterUnclaimed: the claimed permits are kept
filterNothing(ps) == ps

\* permits.filter((p) => !p.isClaimed)
RECURSIVE filterUnclaimed(_)
filterUnclaimed(ps) ==
  IF ps = <<>> THEN <<>>
  ELSE IF Head(ps).isClaimed THEN filterUnclaimed(Tail(ps))
       ELSE <<Head(ps)>> \o filterUnclaimed(Tail(ps))

\* results.forEach((result) => { if (result) permits.push(result) })
RECURSIVE pushResults(_, _, _)
pushResults(permits, results, n) ==
  IF n = 0 THEN permits
  ELSE LET before == pushResults(permits, results, n - 1) IN
       IF results[n] = NULL THEN before ELSE Append(before, results[n])

(***************************************************************************)
(* The run of main().                                                      *)
(***************************************************************************)
VARIABLES
  pc,               \* where main() is: "start", "fetch", "dispatch1", "await1",
                    \* "dispatch2", "await2", "final", "done"; or how it
                    \* ended early: "envError", "aborted", "nodata", "threw"
  data,             \* the rows the store holds (and returns on success)
  fetched,          \* how the query answered: "pending", "rows", "error", "nodata"
  cursor,           \* next element data.map / failedChecks.map starts
  providerCache,    \* networks with a cached provider
  contractCache,    \* <<address, network>> with a cached contract
  st1,              \* first-pass task of row i: "idle", "oracle", "symbol", "done"
  claimed1,         \* its local isClaimed
  results,          \* what it returned: a PermitData or NULL
  completed,        \* completed.count
  progressLog,      \* per row: what its first-pass attempt wrote, in order:
                    \* "error" (console.log) and "progress" (updateSpinner)
  failedChecks,     \* rows whose first-pass attempt threw, in push order
  st2,              \* retry task of failedChecks[k]
  claimed2,
  retryResults,
  retryCompleted,   \* retryCompleted.count
  retrySuccessCount,
  permits,          \* the verified PermitData
  logged,           \* the "Final Results" log lines, NULL before they are written
  report,           \* the written report, NULL while none is written
  attempts,         \* per row: attempts started (both passes)
  oracleQueries,    \* per row: nonceBitmap calls the contract received
  symbolQueries,    \* per row: symbol calls the token contract received
  oracleLog,        \* per row: the answers to its nonceBitmap calls
  symbolLog,        \* per row: the answers to its symbol calls
  calc              \* a call of a helper on its own: its arguments and result

vars == <<pc, data, fetched, cursor, providerCache, contractCache, st1, claimed1, results,
          completed, progressLog, failedChecks, st2, claimed2, retryResults, retryCompleted,
          retrySuccessCount, permits, logged, report, attempts, oracleQueries,
          symbolQueries, oracleLog, symbolLog, calc>>

Rows == 1..MaxPermits

N == Len(data)

DataSets == UNION {[1..n -> PermitRows] : n \in 0..MaxPermits}

\* the state main() starts from, but for its rows; S holds the indexes of
\* the rows a run may have
FreshFor(S) ==
  /\ fetched = "pending"
  /\ cursor = 1
  /\ providerCache = {}
  /\ contractCache = {}
  /\ st1 = [i \in S |-> "idle"]
  /\ claimed1 = [i \in S |-> FALSE]
  /\ results = [i \in S |-> NULL]
  /\ completed = 0
  /\ progressLog = [i \in S |-> <<>>]
  /\ failedChecks = <<>>
  /\ st2 = [k \in S |-> "idle"]
  /\ claimed2 = [k \in S |-> FALSE]
  /\ retryResults = [k \in S |-> NULL]
  /\ retryCompleted = 0
  /\ retrySuccessCount = 0
  /\ permits = <<>>
  /\ logged = NULL
  /\ report = NULL
  /\ attempts = [i \in S |-> 0]
  /\ oracleQueries = [i \in S |-> 0]
  /\ symbolQueries = [i \in S |-> 0]
  /\ oracleLog = [i \in S |-> <<>>]
  /\ symbolLog = [i \in S |-> <<>>]

Fresh == FreshFor(Rows)

Init ==
  /\ pc = "start"
  /\ data \in DataSets
  /\ Fresh
  /\ calc = [op |-> "main"]

firstPassVars == <<st1, claimed1, results, completed, progressLog, failedChecks>>
retryVars == <<st2, claimed2, retryResults, retryCompleted, retrySuccessCount>>
outputVars == <<permits, logged, report>>
logVars == <<oracleLog, symbolLog>>

\* mutant of caughtTaskState: the error is not caught, the promise rejects
rejectedTaskState == "rejected"

\* the catch blocks return null: the task's promise resolves, never rejects
caughtTaskState == "done"

\* mutant of allSettled: the first task that resolves settles it
allSettledByAny(st, n) == \E i \in 1..n : st[i] \in {"done", "rejected"}

\* Promise.all settles: every task resolved, or one rejected
allSettled(st, n) ==
  (\A i \in 1..n : st[i] = "done") \/ (\E i \in 1..n : st[i] = "rejected")

anyRejected(st, n) == \E i \in 1..n : st[i] = "rejected"

\* SUPABASE_URL and SUPABASE_KEY are set: the client is created and the
\* query is sent
EnvOk ==
  /\ pc = "start"
  /\ pc' = "fetch"
  /\ UNCHANGED <<data, fetched, calc, cursor, providerCache, contractCache, firstPassVars,
                 retryVars, outputVars, attempts, oracleQueries, symbolQueries,
                 logVars>>

\* one of them is missing: main throws, main().catch logs the error
EnvMissing ==
  /\ pc = "start"
  /\ pc' = "envError"
  /\ UNCHANGED <<data, fetched, calc, cursor, providerCache, contractCache, firstPassVars,
                 retryVars, outputVars, attempts, oracleQueries, symbolQueries,
                 logVars>>

\* mutant of afterFetch: main goes on with the rows after an error
afterFetchIgnoreError(error, n) == IF n > 0 THEN "dispatch1" ELSE "await1"

\* if (error) { ...; return; }, else on to data.map (which awaits at once
\* when there is no row)
afterFetch(error, n) ==
  IF error THEN "aborted" ELSE IF n > 0 THEN "dispatch1" ELSE "await1"

\* the query of index.ts:70-83 answers with the rows
FetchOk ==
  /\ pc = "fetch"
  /\ fetched' = "rows"
  /\ pc' = afterFetch(FALSE, N)
  /\ UNCHANGED <<data, calc, cursor, providerCache, contractCache, firstPassVars,
                 retryVars, outputVars, attempts, oracleQueries, symbolQueries,
                 logVars>>

\* the query answers with an error: main returns
FetchError ==
  /\ pc = "fetch"
  /\ fetched' = "error"
  /\ pc' = afterFetch(TRUE, N)
  /\ UNCHANGED <<data, calc, cursor, providerCache, contractCache, firstPassVars,
                 retryVars, outputVars, attempts, oracleQueries, symbolQueries,
                 logVars>>

\* the query answers with neither an error nor data: if (!data) return
FetchNoData ==
  /\ pc = "fetch"
  /\ fetched' = "nodata"
  /\ pc' = "nodata"
  /\ UNCHANGED <<data, calc, cursor, providerCache, contractCache, firstPassVars,
                 retryVars, outputVars, attempts, oracleQueries, symbolQueries,
                 logVars>>

\* mutant of catchFirst: the failed permit is not recorded
catchFirstDrop(failed, i) == failed

\* mutant of catchFirst: the push overwrites what other tasks pushed
catchFirstLosesEarlier(failed, i) == <<i>>

\* the catch block of processPermit: failedChecks.push(permit)
catchFirst(failed, i) == Append(failed, i)

\* mutant of retryCatchResult: a failed retry is reported as unclaimed
retryCatchUnclaimed(i, row) == PermitDataOf(i, row, UNKNOWN, FALSE)

\* the catch block of the retry callback: return null
retryCatchResult(i, row) == NULL

\* mutant of afterFirstPass: the retry pass is skipped
afterFirstPassNoRetry(failed) == "final"

\* if (failedChecks.length > 0) { retry pass }
afterFirstPass(failed) == IF Len(failed) > 0 THEN "dispatch2" ELSE "final"

\* what an attempt that returns (null for a row that lacks a field, or its
\* PermitData) writes: logger.updateSpinner(`... ${completed.count}/...`)
writesOnReturn == <<"progress">>

\* mutant of writesOnCatch: the catch block writes nothing
writesOnCatchNothing == <<>>

\* what the catch block of processPermit writes: console.log(`[Error] Failed
\* permit ...`) and then logger.updateSpinner(...)
writesOnCatch == <<"error", "progress">>

\* what the synchronous part of an attempt writes
writesOnStart(kind) ==
  CASE kind = "excluded" -> writesOnReturn
    [] kind = "threw" -> writesOnCatch
    [] OTHER -> <<>>

\* the state of a task after the synchronous part of its attempt
stateAfterStart(kind) ==
  CASE kind = "excluded" -> "done"
    [] kind = "threw" -> caughtTaskState
    [] kind = "rejects" -> "thrown"
    [] OTHER -> "oracle"

\* the microtasks that follow the synchronous map: the catch block of every
\* task whose awaited promise is already rejected, in the order of the map
RECURSIVE catchThrown(_, _, _)
catchThrown(failed, st, n) ==
  IF n = 0 THEN failed
  ELSE LET before == catchThrown(failed, st, n - 1) IN
       IF st[n] = "thrown" THEN catchFirst(before, n) ELSE before

Thrown(st, n) == {j \in 1..n : st[j] = "thrown"}

settleThrown(st, n) ==
  [j \in DOMAIN st |-> IF j <= n /\ st[j] = "thrown" THEN caughtTaskState ELSE st[j]]

\* mutant of mapEnds: the permits are awaited in batches of BatchSize
mapEndsBatch(i, n) == i = n \/ i % 2 = 0

\* data.map(processPermit) returns, and main awaits, after the last element
mapEnds(i, n) == i = n

\* data.map(processPermit) calls processPermit(data[i]); it runs to its
\* first await; after the last call the pending microtasks run
StartFirst ==
  /\ pc = "dispatch1"
  /\ LET i == cursor
         a == attemptStart(data[i], providerCache, contractCache)
         stNow == [st1 EXCEPT ![i] = stateAfterStart(a.kind)]
         completedNow ==
           IF a.kind \in {"excluded", "threw"} THEN completed + 1 ELSE completed
         failedNow ==
           IF a.kind = "threw" THEN catchFirst(failedChecks, i) ELSE failedChecks
         logNow == [progressLog EXCEPT ![i] = @ \o writesOnStart(a.kind)]
     IN  /\ attempts' = [attempts EXCEPT ![i] = @ + 1]
         /\ providerCache' = a.pcache
         /\ contractCache' = a.ccache
         /\ cursor' = i + 1
         /\ oracleQueries' =
              IF a.kind = "query" THEN [oracleQueries EXCEPT ![i] = @ + 1]
              ELSE oracleQueries
         /\ IF mapEnds(i, N)
            THEN /\ pc' = "await1"
                 /\ st1' = settleThrown(stNow, N)
                 /\ completed' = completedNow + Cardinality(Thrown(stNow, N))
                 /\ failedChecks' = catchThrown(failedNow, stNow, N)
                 /\ progressLog' =
                      [j \in DOMAIN logNow |->
                         IF j \in Thrown(stNow, N) THEN logNow[j] \o writesOnCatch
                         ELSE logNow[j]]
            ELSE /\ pc' = pc
                 /\ st1' = stNow
                 /\ completed' = completedNow
                 /\ failedChecks' = failedNow
                 /\ progressLog' = logNow
  /\ UNCHANGED <<data, fetched, calc, claimed1, results, retryVars, outputVars, symbolQueries,
                 logVars>>

\* the contract answers the nonceBitmap call of row i's first-pass task; pos
\* is the { wordPos, bitPos } isNonceClaimed computed before the call
OracleReturnFirst(i, pos, ans) ==
  /\ pc = "await1"
  /\ st1[i] = "oracle"
  /\ oracleLog' = [oracleLog EXCEPT ![i] = Append(@, ans)]
  /\ IF ~ans.ok
     THEN /\ completed' = completed + 1
          /\ failedChecks' = catchFirst(failedChecks, i)
          /\ progressLog' = [progressLog EXCEPT ![i] = @ \o writesOnCatch]
          /\ st1' = [st1 EXCEPT ![i] = caughtTaskState]
          /\ UNCHANGED <<claimed1, results, providerCache, contractCache,
                         symbolQueries>>
     ELSE LET isClaimed == bitIsClaimed(ans.word, pos.bitPos)
              c == getContract(data[i].tokenAddress, data[i].network,
                               providerCache, contractCache)
          IN  /\ claimed1' = [claimed1 EXCEPT ![i] = isClaimed]
              /\ providerCache' = c.pcache
              /\ contractCache' = c.ccache
              /\ UNCHANGED failedChecks
              /\ IF c.threw
                 THEN /\ results' = [results EXCEPT ![i] =
                                       PermitDataOf(i, data[i], UNKNOWN, isClaimed)]
                      /\ completed' = completed + 1
                      /\ progressLog' =
                           [progressLog EXCEPT ![i] = @ \o writesOnReturn]
                      /\ st1' = [st1 EXCEPT ![i] = "done"]
                      /\ UNCHANGED symbolQueries
                 ELSE /\ symbolQueries' = [symbolQueries EXCEPT ![i] = @ + 1]
                      /\ st1' = [st1 EXCEPT ![i] = "symbol"]
                      /\ UNCHANGED <<results, completed, progressLog>>
  /\ UNCHANGED <<pc, data, fetched, calc, cursor, retryVars, outputVars, attempts, oracleQueries,
                 symbolLog>>

\* the token contract answers the symbol call of row i's first-pass task
SymbolReturnFirst(i, resp) ==
  /\ pc = "await1"
  /\ st1[i] = "symbol"
  /\ symbolLog' = [symbolLog EXCEPT ![i] = Append(@, resp)]
  /\ completed' = completed + 1
  /\ LET r == resolveTokenSymbol(resp) IN
     IF r.threw
     THEN /\ failedChecks' = catchFirst(failedChecks, i)
          /\ progressLog' = [progressLog EXCEPT ![i] = @ \o writesOnCatch]
          /\ st1' = [st1 EXCEPT ![i] = caughtTaskState]
          /\ UNCHANGED results
     ELSE /\ results' = [results EXCEPT ![i] =
                          PermitDataOf(i, data[i], r.tokenSymbol, claimed1[i])]
          /\ progressLog' = [progressLog EXCEPT ![i] = @ \o writesOnReturn]
          /\ st1' = [st1 EXCEPT ![i] = "done"]
          /\ UNCHANGED failedChecks
  /\ UNCHANGED <<pc, data, fetched, calc, cursor, providerCache, contractCache, claimed1,
                 retryVars, outputVars, attempts, oracleQueries, symbolQueries,
                 oracleLog>>

\* Promise.all of the first pass settles: the results are collected (a
\* rejection would leave main through main().catch)
JoinFirst ==
  /\ pc = "await1"
  /\ allSettled(st1, N)
  /\ IF anyRejected(st1, N)
     THEN /\ pc' = "threw"
          /\ UNCHANGED <<permits, cursor>>
     ELSE /\ permits' = pushResults(permits, results, N)
          /\ cursor' = 1
          /\ pc' = afterFirstPass(failedChecks)
  /\ UNCHANGED <<data, fetched, calc, providerCache, contractCache, firstPassVars, retryVars,
                 logged, report, attempts, oracleQueries, symbolQueries, logVars>>

\* failedChecks.map(...) calls the retry callback of failedChecks[k]; it runs
\* to its first await; after the last call the pending microtasks run
StartRetry ==
  /\ pc = "dispatch2"
  /\ LET k == cursor
         n == Len(failedChecks)
         i == failedChecks[k]
         a == attemptStart(data[i], providerCache, contractCache)
         stNow == [st2 EXCEPT ![k] = stateAfterStart(a.kind)]
         completedNow ==
           IF a.kind \in {"excluded", "threw"} THEN retryCompleted + 1
           ELSE retryCompleted
         resultsNow ==
           IF a.kind = "threw"
           THEN [retryResults EXCEPT ![k] = retryCatchResult(i, data[i])]
           ELSE retryResults
     IN  /\ attempts' = [attempts EXCEPT ![i] = @ + 1]
         /\ providerCache' = a.pcache
         /\ contractCache' = a.ccache
         /\ cursor' = k + 1
         /\ oracleQueries' =
              IF a.kind = "query" THEN [oracleQueries EXCEPT ![i] = @ + 1]
              ELSE oracleQueries
         /\ IF k = n
            THEN /\ pc' = "await2"
                 /\ st2' = settleThrown(stNow, n)
                 /\ retryCompleted' = completedNow + Cardinality(Thrown(stNow, n))
                 /\ retryResults' =
                      [j \in DOMAIN resultsNow |->
                         IF j \in Thrown(stNow, n)
                         THEN retryCatchResult(failedChecks[j], data[failedChecks[j]])
                         ELSE resultsNow[j]]
            ELSE /\ pc' = pc
                 /\ st2' = stNow
                 /\ retryCompleted' = completedNow
                 /\ retryResults' = resultsNow
  /\ UNCHANGED <<data, fetched, calc, firstPassVars, claimed2, retrySuccessCount, outputVars,
                 symbolQueries, logVars>>

\* the contract answers the nonceBitmap call of the retry of failedChecks[k]
OracleReturnRetry(k, pos, ans) ==
  /\ pc = "await2"
  /\ st2[k] = "oracle"
  /\ LET i == failedChecks[k] IN
     /\ oracleLog' = [oracleLog EXCEPT ![i] = Append(@, ans)]
     /\ IF ~ans.ok
        THEN /\ retryCompleted' = retryCompleted + 1
             /\ retryResults' = [retryResults EXCEPT ![k] =
                                   retryCatchResult(i, data[i])]
             /\ st2' = [st2 EXCEPT ![k] = caughtTaskState]
             /\ UNCHANGED <<claimed2, retrySuccessCount, providerCache,
                            contractCache, symbolQueries>>
        ELSE LET isClaimed == bitIsClaimed(ans.word, pos.bitPos)
                 c == getContract(data[i].tokenAddress, data[i].network,
                                  providerCache, contractCache)
             IN  /\ claimed2' = [claimed2 EXCEPT ![k] = isClaimed]
                 /\ providerCache' = c.pcache
                 /\ contractCache' = c.ccache
                 /\ IF c.threw
                    THEN /\ retryResults' = [retryResults EXCEPT ![k] =
                                 PermitDataOf(i, data[i], UNKNOWN, isClaimed)]
                         /\ retryCompleted' = retryCompleted + 1
                         /\ retrySuccessCount' = retrySuccessCount + 1
                         /\ st2' = [st2 EXCEPT ![k] = "done"]
                         /\ UNCHANGED symbolQueries
                    ELSE /\ symbolQueries' = [symbolQueries EXCEPT ![i] = @ + 1]
                         /\ st2' = [st2 EXCEPT ![k] = "symbol"]
                         /\ UNCHANGED <<retryResults, retryCompleted,
                                        retrySuccessCount>>
  /\ UNCHANGED <<pc, data, fetched, calc, cursor, firstPassVars, outputVars, attempts,
                 oracleQueries, symbolLog>>

\* the token contract answers the symbol call of the retry of failedChecks[k]
SymbolReturnRetry(k, resp) ==
  /\ pc = "await2"
  /\ st2[k] = "symbol"
  /\ retryCompleted' = retryCompleted + 1
  /\ LET i == failedChecks[k]
         r == resolveTokenSymbol(resp)
     IN  /\ symbolLog' = [symbolLog EXCEPT ![i] = Append(@, resp)]
         /\ IF r.threw
            THEN /\ retryResults' = [retryResults EXCEPT ![k] =
                                       retryCatchResult(i, data[i])]
                 /\ st2' = [st2 EXCEPT ![k] = caughtTaskState]
                 /\ UNCHANGED retrySuccessCount
            ELSE /\ retryResults' = [retryResults EXCEPT ![k] =
                         PermitDataOf(i, data[i], r.tokenSymbol, claimed2[k])]
                 /\ retrySuccessCount' = retrySuccessCount + 1
                 /\ st2' = [st2 EXCEPT ![k] = "done"]
  /\ UNCHANGED <<pc, data, fetched, calc, cursor, providerCache, contractCache, firstPassVars,
                 claimed2, outputVars, attempts, oracleQueries, symbolQueries,
                 oracleLog>>

\* mutant of addRetrySuccesses: the successful retries are not added
addRetrySuccessesNone(verified, retried, n) == verified

\* retryResults.forEach((result) => { if (result) permits.push(result) })
addRetrySuccesses(verified, retried, n) == pushResults(verified, retried, n)

\* Promise.all of the retry pass settles: the successful retries are added
JoinRetry ==
  /\ pc = "await2"
  /\ allSettled(st2, Len(failedChecks))
  /\ IF anyRejected(st2, Len(failedChecks))
     THEN /\ pc' = "threw"
          /\ UNCHANGED permits
     ELSE /\ permits' = addRetrySuccesses(permits, retryResults, Len(failedChecks))
          /\ pc' = "final"
  /\ UNCHANGED <<data, fetched, calc, cursor, providerCache, contractCache, firstPassVars,
                 retryVars, logged, report, attempts, oracleQueries, symbolQueries,
                 logVars>>

\* mutant of finalFailedChecks: the successful retries are not subtracted
finalFailedChecksNoRetry(failed, retrySuccess) == Len(failed)

\* `Final failed checks: ${failedChecks.length - retrySuccessCount}`
finalFailedChecks(failed, retrySuccess) == Len(failed) - retrySuccess

\* `- Failed checks: ${failedChecks.length}` of the report's summary
summaryFailedChecks(failed, retrySuccess) == Len(failed)

\* the verified permits the totals are computed from
unclaimedPermits == filterUnclaimed(permits)

finalLog ==
  [processed |-> Len(permits),
   claimed |-> Len(permits) - Len(unclaimedPermits),
   unclaimed |-> Len(unclaimedPermits),
   finalFailed |-> finalFailedChecks(failedChecks, retrySuccessCount)]

\* mutant of skipsReport: main never returns before the report
skipsReportNever(unclaimed) == FALSE

\* if (unclaimedPermits.length === 0) { ...; return; }
skipsReport(unclaimed) == Len(unclaimed) = 0

\* "Final Results" with no unclaimed permit: main returns without a report
FinalNoReport ==
  /\ pc = "final"
  /\ skipsReport(unclaimedPermits)
  /\ logged' = finalLog
  /\ pc' = "done"
  /\ UNCHANGED <<data, fetched, calc, cursor, providerCache, contractCache, firstPassVars,
                 retryVars, permits, report, attempts, oracleQueries, symbolQueries,
                 logVars>>

\* "Final Results", the totals and the report file
FinalReport ==
  /\ pc = "final"
  /\ ~skipsReport(unclaimedPermits)
  /\ logged' = finalLog
  /\ report' =
       [walletToppings |->
          calculateWalletTotals(unclaimedPermits, "partnerAddress"),
        userRewards |-> calculateUserWalletTotals(unclaimedPermits),
        processed |-> Len(permits),
        failedChecks |-> summaryFailedChecks(failedChecks, retrySuccessCount),
        claimed |-> Len(permits) - Len(unclaimedPermits),
        unclaimed |-> Len(unclaimedPermits)]
  /\ pc' = "done"
  /\ UNCHANGED <<data, fetched, calc, cursor, providerCache, contractCache, firstPassVars,
                 retryVars, permits, attempts, oracleQueries, symbolQueries,
                 logVars>>

\* the first-pass tasks, and the retry tasks, that await this call
PendingFirst(call) ==
  IF pc = "await1" THEN {i \in 1..N : st1[i] = call} ELSE {}

PendingRetry(call) ==
  IF pc = "await2" THEN {k \in 1..Len(failedChecks) : st2[k] = call} ELSE {}

Next ==
  \/ EnvOk
  \/ EnvMissing
  \/ FetchOk
  \/ FetchError
  \/ FetchNoData
  \/ StartFirst
  \/ \E i \in PendingFirst("oracle") : \E pos \in {positionOf(data[i])} :
        \E ans \in OracleAnswers(pos.wordPos) : OracleReturnFirst(i, pos, ans)
  \/ \E i \in PendingFirst("symbol") :
        \E resp \in SymbolAnswers(data[i].tokenAddress) : SymbolReturnFirst(i, resp)
  \/ JoinFirst
  \/ StartRetry
  \/ \E k \in PendingRetry("oracle") :
        \E pos \in {positionOf(data[failedChecks[k]])} :
          \E ans \in OracleAnswers(pos.wordPos) : OracleReturnRetry(k, pos, ans)
  \/ \E k \in PendingRetry("symbol") :
        \E resp \in SymbolAnswers(data[failedChecks[k]].tokenAddress) :
          SymbolReturnRetry(k, resp)
  \/ JoinRetry
  \/ FinalNoReport
  \/ FinalReport

Spec == Init /\ [][Next]_vars

\* every pending call returns or fails, and main's own steps run
FairInit == Init /\ Len(data) <= MaxLivePermits

FairSpec == FairInit /\ [][Next]_vars /\ WF_vars(Next)

(***************************************************************************)
(* The run over permits of one owner with the nonces 0 and 256.            *)
(***************************************************************************)
\* number of permit rows of these runs
MaxE2EPermits == 2

E2ERows ==
  { [nonce |-> <<"0">>, amount |-> <<"5", "0", "0">>,
     partnerAddress |-> "A", tokenAddress |-> "T1", userAddress |-> "U1",
     userId |-> 7, network |-> 1],
    [nonce |-> <<"2", "5", "6">>, amount |-> <<"1", "0", "0", "0">>,
     partnerAddress |-> "A", tokenAddress |-> "T1", userAddress |-> "U1",
     userId |-> 7, network |-> 1] }

E2EInit ==
  /\ pc = "start"
  /\ data \in UNION {[1..n -> E2ERows] : n \in 1..MaxE2EPermits}
  /\ Fresh
  /\ calc = [op |-> "main"]

E2ESpec == E2EInit /\ [][Next]_vars

(***************************************************************************)
(* The run over permits of users the identity resolver answers for         *)
(* differently.                                                            *)
(***************************************************************************)
\* number of permit rows of these runs
MaxNamePermits == 2

\* a complete row of a user
NameRow(userAddress, userId) ==
  [nonce |-> <<"0">>, amount |-> <<"5">>, partnerAddress |-> "A",
   tokenAddress |-> "T1", userAddress |-> userAddress, userId |-> userId,
   network |-> 1]

\* rows of a user GitHub knows (7), of one whose request fails (8), of one
\* whose answer has no login (9), and a row with no user id
NameRows ==
  { NameRow("U1", 7), NameRow("U2", 8), NameRow("U3", 9), NameRow("U4", 0) }

NameInit ==
  /\ pc = "start"
  /\ data \in UNION {[1..n -> NameRows] : n \in 0..MaxNamePermits}
  /\ Fresh
  /\ calc = [op |-> "main"]

NameSpec == NameInit /\ [][Next]_vars

(***************************************************************************)
(* The run over permits of one partner in two tokens.                      *)
(***************************************************************************)
\* number of permit rows of these runs
MaxTokenPermits == 2

\* a complete row of partner A and user U1
TokenRow(tokenAddress, network, amount) ==
  [nonce |-> <<"0">>, amount |-> amount, partnerAddress |-> "A",
   tokenAddress |-> tokenAddress, userAddress |-> "U1", userId |-> 7,
   network |-> network]

\* rows in the tokens T1 and T2 of network 1, and in T2 of network 100
TokenRows ==
  { TokenRow("T1", 1, <<"5">>), TokenRow("T2", 1, <<"3">>),
    TokenRow("T2", 100, <<"4">>) }

TokenInit ==
  /\ pc = "start"
  /\ data \in UNION {[1..n -> TokenRows] : n \in 0..MaxTokenPermits}
  /\ Fresh
  /\ calc = [op |-> "main"]

TokenSpec == TokenInit /\ [][Next]_vars

(***************************************************************************)
(* The run over more permits than one batch of the documented batch        *)
(* processing holds.                                                       *)
(***************************************************************************)
\* const batchSize = 20, "Batch processing (20 permits per batch)"
batchSize == 20

\* number of permit rows of these runs
MaxBatchPermits == 22

\* the batch the documented loop puts row i in: data.slice(i, i + batchSize)
batchOf(i) == (i - 1) \div batchSize

\* a complete row whose nonce is malformed: its attempt is rejected in
\* isNonceClaimed without a call of the contract
BatchRow ==
  [nonce |-> <<"a">>, amount |-> <<"3">>, partnerAddress |-> "B",
   tokenAddress |-> "T1", userAddress |-> "U1", userId |-> 7, network |-> 1]

\* a row whose attempt calls the contract, and a row with no token address
BatchOtherRows ==
  { [nonce |-> <<"0">>, amount |-> <<"5">>, partnerAddress |-> "A",
     tokenAddress |-> "T1", userAddress |-> "U1", userId |-> 7, network |-> 1],
    [nonce |-> <<"1">>, amount |-> <<"7">>, partnerAddress |-> "B",
     tokenAddress |-> Null, userAddress |-> "U1", userId |-> 7, network |-> 1] }

\* up to MaxBatchPermits rows, at most one of them of the other rows
BatchDataSets ==
  UNION { {[i \in 1..n |-> BatchRow]}
            \cup {[i \in 1..n |-> IF i = j THEN r ELSE BatchRow] :
                    j \in 1..n, r \in BatchOtherRows} :
          n \in 0..MaxBatchPermits }

BatchInit ==
  /\ pc = "start"
  /\ data \in BatchDataSets
  /\ FreshFor(1..MaxBatchPermits)
  /\ calc = [op |-> "main"]

BatchSpec == BatchInit /\ [][Next]_vars

(***************************************************************************)
(* The helpers called on their own: calc holds the arguments of a call and *)
(* then its result, main() does not run.                                   *)
(***************************************************************************)
runVars == <<pc, data, fetched, cursor, providerCache, contractCache, st1,
             claimed1, results, completed, progressLog, failedChecks, st2, claimed2,
             retryResults, retryCompleted, retrySuccessCount, permits, logged,
             report, attempts, oracleQueries, symbolQueries, oracleLog, symbolLog>>

\* main() is not running: its state is the one before it starts, with no rows
NoRun ==
  /\ pc = "helper"
  /\ data = <<>>
  /\ Fresh

(***************************************************************************)
(* helpers/web3.ts: getContract called on its own, any number of times.    *)
(***************************************************************************)
\* number of calls of getContract
MaxCalls == 4

\* the contracts asked for: Permit2 and two tokens, on three networks
CacheAddresses == {PERMIT2_ADDRESS, "T1", "T2"}

CacheNetworks == {1, 100, 5}

\* main's state but for the two caches
noCacheVars == <<pc, data, fetched, cursor, st1, claimed1, results, completed,
                 progressLog, failedChecks, st2, claimed2, retryResults,
                 retryCompleted, retrySuccessCount, permits, logged, report,
                 attempts, oracleQueries, symbolQueries, oracleLog, symbolLog>>

\* the caches are empty; calc counts the calls, the networks they named and
\* the providers constructed for each network
CacheInit ==
  /\ NoRun
  /\ calc = [op |-> "cache", calls |-> 0, named |-> {},
             created |-> [n \in CacheNetworks |-> 0]]

\* getContract(address, abi, networkId) is called
CallGetContract(address, networkId) ==
  /\ calc.op = "cache"
  /\ calc.calls < MaxCalls
  /\ LET c == getContract(address, networkId, providerCache, contractCache) IN
     /\ providerCache' = c.pcache
     /\ contractCache' = c.ccache
     /\ calc' = [op |-> "cache", calls |-> calc.calls + 1,
                 named |-> calc.named \cup {networkId},
                 created |-> [calc.created EXCEPT ![networkId] =
                                @ + IF c.created THEN 1 ELSE 0]]
  /\ UNCHANGED noCacheVars

CacheNext ==
  \E address \in CacheAddresses : \E networkId \in CacheNetworks :
    CallGetContract(address, networkId)

CacheSpec == CacheInit /\ [][CacheNext]_vars

(***************************************************************************)
(* helpers/config.ts and the filter of helpers/supabase.ts: the partner    *)
(* wallet allowlist.                                                       *)
(***************************************************************************)
\* number of wallets given as arguments
MaxAllowArgs == 2

\* String.prototype.toLowerCase on the letters of an address
LowerChar(c) ==
  CASE c = "A" -> "a" [] c = "B" -> "b" [] c = "C" -> "c" [] c = "D" -> "d"
    [] c = "E" -> "e" [] c = "F" -> "f" [] c = "X" -> "x" [] OTHER -> c

toLowerCase(str) == [k \in 1..Len(str) |-> LowerChar(str[k])]

\* String.prototype.trim
RECURSIVE trimStart(_)
trimStart(str) ==
  IF str # <<>> /\ Head(str) = " " THEN trimStart(Tail(str)) ELSE str

RECURSIVE trimEnd(_)
trimEnd(str) ==
  IF str # <<>> /\ str[Len(str)] = " "
  THEN trimEnd(SubSeq(str, 1, Len(str) - 1)) ELSE str

trim(str) == trimEnd(trimStart(str))

\* the two addresses config.ts:15-16 adds, in the letter case it spells them
\* in (cut to their first characters)
DefaultAllowlist ==
  { <<"0", "x", "9", "e", "D", "a">>, <<"0", "x", "0", "E", "c", "2">> }

\* getPartnerAllowlist(logger, walletsFromArgs): the arguments trimmed and in
\* lower case, but for the empty ones; the two default addresses when that
\* leaves none (no argument list is the empty list here: the code treats
\* both alike)
getPartnerAllowlist(walletsFromArgs) ==
  LET given ==
        {toLowerCase(trim(walletsFromArgs[k])) :
           k \in 1..Len(walletsFromArgs)} \ {<<>>}
  IN  IF given = {} THEN DefaultAllowlist ELSE given

\* query.filter("partners.wallets.address", "in", `(${...join(",")})`): the
\* store compares the address with the entries as they are written, or
\* without regard to letter case when its column is caseless
matchesIn(address, entries, caseless) ==
  IF caseless
  THEN \E e \in entries : toLowerCase(e) = toLowerCase(address)
  ELSE address \in entries

\* the partner addresses of the rows fetchAllPermits gets from the store
\* when it is given the allowlist (supabase.ts:48-50, 76-82)
fetchAllPermitsKeeps(addresses, partnerWalletAllowlist, caseless) ==
  LET allowlistSet == {a \in partnerWalletAllowlist : Len(a) > 0}
  IN  IF allowlistSet # {}
      THEN {a \in addresses : matchesIn(a, allowlistSet, caseless)}
      ELSE addresses

\* fetchAllPermits is called with the allowlist getPartnerAllowlist returns
selectByAllowlist(addresses, walletsFromArgs, caseless) ==
  fetchAllPermitsKeeps(addresses, getPartnerAllowlist(walletsFromArgs), caseless)

\* what a wallet argument may be
AllowStrings ==
  { <<>>, <<" ">>,
    <<"0", "x", "9", "e", "D", "a">>, <<"0", "x", "9", "e", "d", "a">>,
    <<" ", "0", "X", "9", "E", "D", "A">>,
    <<"0", "x", "0", "E", "c", "2">>,
    <<"0", "x", "7", "b", "B", "1">> }

\* the arguments: none, or up to MaxAllowArgs wallets
AllowArgs == UNION {[1..n -> AllowStrings] : n \in 0..MaxAllowArgs}

\* the partner addresses of the rows the store holds
StoreAddresses ==
  { <<"0", "x", "9", "e", "D", "a">>, <<"0", "x", "9", "e", "d", "a">>,
    <<"0", "x", "0", "E", "c", "2">>, <<"0", "x", "7", "b", "B", "1">>,
    <<"0", "x", "7", "b", "b", "1">> }

AllowInit ==
  /\ NoRun
  /\ calc \in {[op |-> "allow", args |-> a, caseless |-> c] :
                 a \in AllowArgs, c \in BOOLEAN}

\* the permits are fetched with the allowlist of the arguments, and with the
\* default allowlist
CallSelect ==
  /\ calc.op = "allow"
  /\ calc' = [op |-> "selected", args |-> calc.args, caseless |-> calc.caseless,
              allowlist |-> getPartnerAllowlist(calc.args),
              kept |-> selectByAllowlist(StoreAddresses, calc.args, calc.caseless),
              keptByDefault |->
                selectByAllowlist(StoreAddresses, <<>>, calc.caseless)]
  /\ UNCHANGED runVars

AllowNext == CallSelect

AllowSpec == AllowInit /\ [][AllowNext]_vars

(***************************************************************************)
(* helpers/supabase.ts: fetchAllPermits called on its own against a store  *)
(* that holds storeRows matching rows (row k is the k-th in the order of   *)
(* the query) and answers a request with at most cap rows.                 *)
(***************************************************************************)
\* const BATCH_SIZE = 1000
BATCH_SIZE == 1000

\* the largest number of rows the store holds
MaxStoreRows == 2001

\* the stores: sizes around the multiples of BATCH_SIZE
StoreSizes ==
  {n \in 0..MaxStoreRows : n % BATCH_SIZE <= 2 \/ n % BATCH_SIZE >= BATCH_SIZE - 2}

\* the most rows a store returns for one request
StoreCaps == {BATCH_SIZE - 1, BATCH_SIZE}

\* the errors a request may end with
StoreErrors == {"timeout", "denied"}

\* startRange = currentPage * BATCH_SIZE; endRange = startRange + BATCH_SIZE - 1
pageRange(currentPage) ==
  [from |-> currentPage * BATCH_SIZE,
   to |-> currentPage * BATCH_SIZE + BATCH_SIZE - 1]

\* .range(from, to).order("id") of a store of n rows that returns at most
\* cap rows: the rows from..to that exist, in order, cut to the first cap
storeRange(n, cap, from, to) ==
  LET last == IF to < n - 1 THEN to ELSE n - 1
      there == IF last < from THEN 0 ELSE last - from + 1
      len == IF there < cap THEN there ELSE cap
  IN  [k \in 1..len |-> from + k - 1]

\* mutant of lastPage: a full page ends the loop as well
lastPageOrFull(len) == len <= BATCH_SIZE

\* if (data.length < BATCH_SIZE) hasMore = false
lastPage(len) == len < BATCH_SIZE

\* mutant of errorResult: the rows fetched so far are returned with the error
errorResultKeepsRows(allPermits, error) ==
  [dataIsNull |-> FALSE, data |-> allPermits, error |-> error]

\* if (error) return { data: null, error }
errorResult(allPermits, error) ==
  [dataIsNull |-> TRUE, data |-> <<>>, error |-> error]

\* return { data: allPermits, error: null }
okResult(allPermits) == [dataIsNull |-> FALSE, data |-> allPermits, error |-> Null]

PageInit ==
  /\ NoRun
  /\ calc \in {[op |-> "page", storeRows |-> n, cap |-> c, phase |-> "loop",
                currentPage |-> 0, allPermits |-> <<>>, totalFetched |-> 0,
                requests |-> <<>>, answers |-> <<>>, result |-> okResult(<<>>)] :
                 n \in StoreSizes, c \in StoreCaps}

\* one turn of while (hasMore) up to await query: the range is computed and
\* the request is sent
SendRequest ==
  /\ calc.op = "page"
  /\ calc.phase = "loop"
  /\ calc' = [calc EXCEPT !.phase = "await",
                          !.requests = Append(@, pageRange(calc.currentPage))]
  /\ UNCHANGED runVars

\* the store answers the request with rows: the rest of the turn
StoreAnswers ==
  /\ calc.op = "page"
  /\ calc.phase = "await"
  /\ LET r == calc.requests[Len(calc.requests)]
         rows == storeRange(calc.storeRows, calc.cap, r.from, r.to)
         all == calc.allPermits \o rows
         answered == Append(calc.answers, [ok |-> TRUE, len |-> Len(rows), error |-> Null])
     IN  IF Len(rows) = 0
         THEN calc' = [calc EXCEPT !.phase = "returned", !.answers = answered,
                                   !.result = okResult(calc.allPermits)]
         ELSE IF lastPage(Len(rows))
              THEN calc' = [calc EXCEPT !.phase = "returned", !.answers = answered,
                                        !.allPermits = all,
                                        !.totalFetched = @ + Len(rows),
                                        !.result = okResult(all)]
              ELSE calc' = [calc EXCEPT !.phase = "loop", !.answers = answered,
                                        !.allPermits = all,
                                        !.totalFetched = @ + Len(rows),
                                        !.currentPage = @ + 1]
  /\ UNCHANGED runVars

\* the store answers the request with an error
StoreFails(error) ==
  /\ calc.op = "page"
  /\ calc.phase = "await"
  /\ calc' = [calc EXCEPT !.phase = "returned",
                          !.answers = Append(@, [ok |-> FALSE, len |-> 0, error |-> error]),
                          !.result = errorResult(calc.allPermits, error)]
  /\ UNCHANGED runVars

PageNext ==
  \/ SendRequest
  \/ StoreAnswers
  \/ \E error \in StoreErrors : StoreFails(error)

\* every request is answered and the loop goes on
PageSpec == PageInit /\ [][PageNext]_vars /\ WF_vars(PageNext)

(***************************************************************************)
(* helpers/formatting.ts on lists of PermitData.                           *)
(***************************************************************************)
\* length of the lists of permits the aggregation is called with
MaxAggPermits == 3

\* a PermitData as formatting.ts reads it
AggPermit(partner, user, name, symbol, net, amount) ==
  [partnerAddress |-> partner, userAddress |-> user, userName |-> name,
   tokenAddress |-> "T1", tokenSymbol |-> symbol, network |-> net,
   amount |-> amount, isClaimed |-> FALSE]

\* permits that share wallets, symbols and networks in several ways; the
\* last one has no userName
AggPermits ==
  { AggPermit("A", "U1", <<"a", "l", "i", "c", "e">>, "T", 1, <<"5">>),
    AggPermit("A", "U1", <<"b", "o", "b">>, "T", 100, <<"3">>),
    AggPermit("B", "U2", <<"b", "o", "b">>, "T", 1, <<"4">>),
    AggPermit("B", "U1", <<"a", "l", "i", "c", "e">>, "X", 1, <<"2">>),
    AggPermit("A", "U2", <<>>, "T", 1, <<"6">>) }

AggLists == UNION {[1..n -> AggPermits] : n \in 0..MaxAggPermits}

AggInit == NoRun /\ calc \in {[op |-> "permits", ps |-> ps] : ps \in AggLists}

\* both aggregations of a list, as main calls them
bothTotals(ps) ==
  [wallets |-> calculateWalletTotals(ps, "partnerAddress"),
   users |-> calculateUserWalletTotals(ps)]

\* the aggregations are called with the list
CallTotals ==
  /\ calc.op = "permits"
  /\ calc' = [op |-> "totals", ps |-> calc.ps, of |-> bothTotals(calc.ps)]
  /\ UNCHANGED runVars

\* the aggregations are called with the list and with a permutation of it
CallPermuted ==
  /\ calc.op = "permits"
  /\ \E perm \in Permutations(1..Len(calc.ps)) :
       LET qs == [j \in 1..Len(calc.ps) |-> calc.ps[perm[j]]] IN
       calc' = [op |-> "permuted", ps |-> calc.ps, qs |-> qs,
                of |-> bothTotals(calc.ps), ofOther |-> bothTotals(qs)]
  /\ UNCHANGED runVars

\* ps with the permit at k replaced by two permits that differ from it in
\* their amounts only; the second one follows the first or ends the list
splitAt(ps, k, a, b, atEnd) ==
  LET first == [ps[k] EXCEPT !.amount = ToDecimal(a)]
      second == [ps[k] EXCEPT !.amount = ToDecimal(b)]
      before == SubSeq(ps, 1, k - 1)
      after == SubSeq(ps, k + 1, Len(ps))
  IN  IF atEnd THEN before \o <<first>> \o after \o <<second>>
      ELSE before \o <<first, second>> \o after

\* the aggregations are called with the list and with the list in which one
\* permit of amount a + b is split in two of amounts a and b
CallSplit ==
  /\ calc.op = "permits"
  /\ \E k \in 1..Len(calc.ps) : \E atEnd \in BOOLEAN :
       \E a \in 0..DecVal(calc.ps[k].amount) :
         LET qs == splitAt(calc.ps, k, a, DecVal(calc.ps[k].amount) - a, atEnd) IN
         calc' = [op |-> "split", ps |-> calc.ps, qs |-> qs, at |-> k,
                  of |-> bothTotals(calc.ps), ofOther |-> bothTotals(qs)]
  /\ UNCHANGED runVars

AggNext == CallTotals \/ CallPermuted \/ CallSplit

AggSpec == AggInit /\ [][AggNext]_vars

(***************************************************************************)
(* helpers/formatting.ts on permits whose amounts are any strings.         *)
(***************************************************************************)
\* length of the lists of permits of these calls
MaxAmountPermits == 2

\* amounts BigNumber.from takes (decimal, negative, hexadecimal) and amounts
\* it throws on (a fraction, a word, the empty string)
AmountStrings ==
  { <<"7">>, <<"-", "3">>, <<"0", "x", "1", "0">>,
    <<"1", ".", "5">>, <<"x">>, <<>> }

\* permits of one user, paid by two partners in two tokens
AmountPermits ==
  { AggPermit(partner, "U1", <<"a", "l", "i", "c", "e">>, symbol, 1, amount) :
      partner \in {"A", "B"}, symbol \in {"T", "X"}, amount \in AmountStrings }

AmountLists == UNION {[1..n -> AmountPermits] : n \in 0..MaxAmountPermits}

AmountInit == NoRun /\ calc \in {[op |-> "amounts", ps |-> ps] : ps \in AmountLists}

\* the aggregations are called with the list
CallWithAmounts ==
  /\ calc.op = "amounts"
  /\ calc' = [op |-> "summed", ps |-> calc.ps, of |-> bothTotals(calc.ps)]
  /\ UNCHANGED runVars

AmountNext == CallWithAmounts

AmountSpec == AmountInit /\ [][AmountNext]_vars

(***************************************************************************)
(* helpers/github.ts: fetchGitHubUsernames called on its own, any number   *)
(* of times; userCache lives from call to call.                            *)
(***************************************************************************)
\* const batchSize = 10 of fetchGitHubUsernames
githubBatchSize == 10

\* number of calls of fetchGitHubUsernames
MaxGitCalls == 2

\* the most lookups of one call that fail
MaxGitFailures == 1

\* the user ids asked for: two more than a batch holds
GitIds == 1..(githubBatchSize + 2)

\* user.login of GitHub's answer for a user; the answer for user 9 has none
gitLogin(userId) ==
  CASE userId = 7 -> <<"a", "l", "i", "c", "e">>
    [] userId = 9 -> <<>>
    [] OTHER -> <<"g", "h">> \o ToDecimal(userId)

\* mutant of fetchGitHubUsername: the placeholder of a failed lookup is
\* cached as well
fetchGitHubUsernameCachesAll(userId, cache, fails) ==
  IF userId \in DOMAIN cache THEN [username |-> cache[userId], cache |-> cache]
  ELSE LET username == IF fails THEN userFallback(userId) ELSE gitLogin(userId) IN
       [username |-> username, cache |-> (userId :> username) @@ cache]

\* fetchGitHubUsername(userId) with userCache as it is when the lookup is
\* answered; fails: the response is not ok or fetch throws
fetchGitHubUsername(userId, cache, fails) ==
  IF userId \in DOMAIN cache THEN [username |-> cache[userId], cache |-> cache]
  ELSE IF fails THEN [username |-> userFallback(userId), cache |-> cache]
       ELSE [username |-> gitLogin(userId),
             cache |-> (userId :> gitLogin(userId)) @@ cache]

\* one batch: the lookups of batch[1..n] are answered and their names set
RECURSIVE fetchBatch(_, _, _, _, _)
fetchBatch(batch, n, failing, cache, names) ==
  IF n = 0 THEN [cache |-> cache, names |-> names]
  ELSE LET before == fetchBatch(batch, n - 1, failing, cache, names)
           one == fetchGitHubUsername(batch[n], before.cache, batch[n] \in failing)
       IN  [cache |-> one.cache,
            names |-> (batch[n] :> one.username) @@ before.names]

\* for (let i = 0; i < uncachedIds.length; i += batchSize), from i on
RECURSIVE fetchBatches(_, _, _, _, _)
fetchBatches(uncachedIds, i, failing, cache, names) ==
  IF i >= Len(uncachedIds) THEN [cache |-> cache, names |-> names]
  ELSE LET to == IF i + githubBatchSize < Len(uncachedIds)
                 THEN i + githubBatchSize ELSE Len(uncachedIds)
           batch == SubSeq(uncachedIds, i + 1, to)
           done == fetchBatch(batch, Len(batch), failing, cache, names)
       IN  fetchBatches(uncachedIds, i + githubBatchSize, failing,
                        done.cache, done.names)

\* for (const id of userIds) if (!names.has(id) && userCache.has(id)) ...
RECURSIVE fillFromCache(_, _, _, _)
fillFromCache(userIds, n, cache, names) ==
  IF n = 0 THEN names
  ELSE LET before == fillFromCache(userIds, n - 1, cache, names) IN
       IF userIds[n] \notin DOMAIN before /\ userIds[n] \in DOMAIN cache
       THEN (userIds[n] :> cache[userIds[n]]) @@ before
       ELSE before

\* fetchGitHubUsernames(userIds): the map it returns and userCache after it
fetchGitHubUsernames(userIds, cache, failing) ==
  LET uncachedIds == SelectSeq(userIds, LAMBDA id : id \notin DOMAIN cache) IN
  IF Len(uncachedIds) = 0
  THEN [cache |-> cache,
        results |-> [id \in {userIds[k] : k \in 1..Len(userIds)} |-> cache[id]]]
  ELSE LET looked == fetchBatches(uncachedIds, 0, failing, cache, <<>>) IN
       [cache |-> looked.cache,
        results |-> fillFromCache(userIds, Len(userIds), looked.cache,
                                  looked.names)]

\* the lists of ids of a call: Array.from of a set, here the ids lo..hi
GitIdLists ==
  {[k \in 1..(hi - lo + 1) |-> lo + k - 1] :
     lo \in {1, 7, 8}, hi \in {0, 7, 8, 9, githubBatchSize + 2}}

GitInit ==
  /\ NoRun
  /\ calc = [op |-> "github", calls |-> 0, cache |-> <<>>, before |-> <<>>,
             userIds |-> <<>>, failing |-> {}, results |-> <<>>]

\* fetchGitHubUsernames(userIds) is called; the lookups of failing fail
CallFetchUsernames(userIds, failing) ==
  /\ calc.op = "github"
  /\ calc.calls < MaxGitCalls
  /\ LET r == fetchGitHubUsernames(userIds, calc.cache, failing) IN
     calc' = [op |-> "github", calls |-> calc.calls + 1, cache |-> r.cache,
              before |-> calc.cache, userIds |-> userIds, failing |-> failing,
              results |-> r.results]
  /\ UNCHANGED runVars

\* the ids of a list a call has to look up
LookedUp(userIds, cache) ==
  {userIds[k] : k \in 1..Len(userIds)} \ DOMAIN cache

GitNext ==
  \E userIds \in GitIdLists :
    \E failing \in {F \in SUBSET LookedUp(userIds, calc.cache) :
                      Cardinality(F) <= MaxGitFailures} :
      CallFetchUsernames(userIds, failing)

GitSpec == GitInit /\ [][GitNext]_vars

(***************************************************************************)
(* helpers/web3.ts: the bitmap arithmetic on nonces and words.             *)
(***************************************************************************)
\* largest nonce nonceBitmap is called with
MaxNonce == 600

\* largest bitmap word and bit position the claimed test is called with
MaxBitmapWord == 63
MaxBitPos == 7

\* what may follow the "." of a nonce string
FracParts == {<<>>, <<"0">>, <<"5">>, <<"9", "9">>}

\* strings that are no number
BadNonces == {<<>>, <<"a">>, <<".", "5">>, <<"-", "1">>}

\* the arguments of a call of nonceBitmap: the number n as a decimal string,
\* as a decimal string with a fractional part, or as a JavaScript number; or
\* a string that is no number
NonceCalls ==
  {[op |-> "nonce", typ |-> "string", n |-> n, nonce |-> ToDecimal(n),
    whole |-> ToDecimal(n), frac |-> FALSE] : n \in 0..MaxNonce}
  \cup
  {[op |-> "nonce", typ |-> "string", n |-> x[1],
    nonce |-> ToDecimal(x[1]) \o <<".">> \o x[2],
    whole |-> ToDecimal(x[1]), frac |-> TRUE] : x \in (0..MaxNonce) \X FracParts}
  \cup
  {[op |-> "nonce", typ |-> "number", n |-> n, nonce |-> <<>>,
    whole |-> ToDecimal(n), frac |-> FALSE] : n \in 0..MaxNonce}
  \cup
  {[op |-> "nonce", typ |-> "bad", n |-> 0, nonce |-> b, whole |-> b,
    frac |-> FALSE] : b \in BadNonces}

\* the arguments of the claimed test: a bitmap word and a bit position
BitCalls ==
  {[op |-> "bit", bitmap |-> w, bitPos |-> b] :
     w \in 0..MaxBitmapWord, b \in 0..MaxBitPos}

Web3Init == NoRun /\ (calc \in NonceCalls \/ calc \in BitCalls)

\* nonceBitmap is called with the nonce, and with its integer part
CallNonceBitmap ==
  /\ calc.op = "nonce"
  /\ calc' = [op |-> "wordbit", typ |-> calc.typ, n |-> calc.n,
              nonce |-> calc.nonce, whole |-> calc.whole, frac |-> calc.frac,
              out |-> IF calc.typ = "number" THEN nonceBitmapOfNumber(calc.n)
                      ELSE nonceBitmap(calc.nonce),
              outWhole |-> nonceBitmap(calc.whole)]
  /\ UNCHANGED runVars

\* the claimed test of isNonceClaimed is applied to the word the contract
\* answered with
CallClaimedTest ==
  /\ calc.op = "bit"
  /\ calc' = [op |-> "claimed", bitmap |-> calc.bitmap, bitPos |-> calc.bitPos,
              isClaimed |-> bitIsClaimed(calc.bitmap, calc.bitPos)]
  /\ UNCHANGED runVars

Web3Next == CallNonceBitmap \/ CallClaimedTest

Web3Spec == Web3Init /\ [][Web3Next]_vars

(***************************************************************************)
(* What the claims speak of, read from the rows and from the answers the   *)
(* external services gave.                                                 *)
(***************************************************************************)
\* the row has no partner, token or user address, or no network
LacksField(row) ==
  \/ row.partnerAddress = Null
  \/ row.tokenAddress = Null
  \/ row.userAddress = Null
  \/ row.network = 0

\* the row is complete but its network has no endpoint
NoEndpoint(row) == ~LacksField(row) /\ row.network \notin {1, 100}

\* the row is complete, its network has an endpoint, its nonce is no integer
MalformedNonce(row) ==
  /\ ~LacksField(row)
  /\ row.network \in {1, 100}
  /\ \E c \in 1..Len(row.nonce) : row.nonce[c] \notin DigitChars \cup {"."}

\* both passes are over
RunEnded == pc \in {"final", "done"}

\* how often row i is in the verified list
CountIn(ps, i) == Cardinality({k \in 1..Len(ps) : ps[k].src = i})

\* the places of row i in the pending-retry list
FailedIdx(i) == {k \in 1..Len(failedChecks) : failedChecks[k] = i}

\* how often row i failed its retry as well
PermFailedCount(i) == Cardinality({k \in FailedIdx(i) : retryResults[k] = NULL})

\* the contract answered one of row i's nonceBitmap calls
OracleAnswered(i) == \E n \in 1..Len(oracleLog[i]) : oracleLog[i][n].ok

\* the first-pass attempt of row i is over and gave no PermitData, though the
\* row is complete
FirstFailed(i) == st1[i] = "done" /\ results[i] = NULL /\ ~LacksField(data[i])

\* both attempts of row i failed
BothFailed(i) == RunEnded /\ FirstFailed(i) /\ ~OracleAnswered(i)

\* bit b of word
BitSet(word, b) == (word \div Pow2(b)) % 2 = 1

\* the contract answered for row i, and the bit of its nonce is not set
AnsweredUnclaimed(i) ==
  \E n \in 1..Len(oracleLog[i]) :
    /\ oracleLog[i][n].ok
    /\ ~BitSet(oracleLog[i][n].word, DecVal(data[i].nonce) % 256)

RECURSIVE SumAmounts(_)
SumAmounts(S) ==
  IF S = {} THEN 0
  ELSE LET i == CHOOSE x \in S : TRUE IN DecVal(data[i].amount) + SumAmounts(S \ {i})

\* the amounts of the rows that were answered as unclaimed
ExpectedTotal == SumAmounts({i \in 1..N : AnsweredUnclaimed(i)})

RECURSIVE SumGrand(_, _)
SumGrand(totals, W) ==
  IF W = {} THEN 0
  ELSE LET w == CHOOSE x \in W : TRUE IN totals[w].grandTotal + SumGrand(totals, W \ {w})

GrandSum(totals) == SumGrand(totals, DOMAIN totals)

\* the symbol a verified permit must carry after this answer of symbol()
ExpectedSymbol(log) ==
  IF log = <<>> THEN "UNKNOWN"
  ELSE IF log[Len(log)] = "fail" THEN "UNKNOWN" ELSE log[Len(log)]

\* the report's totals are those of the rows answered as unclaimed
TotalsAsAnswered ==
  report # NULL =>
    /\ GrandSum(report.walletToppings) = ExpectedTotal
    /\ GrandSum(report.userRewards) = ExpectedTotal

(***************************************************************************)
(* The claims.                                                             *)
(***************************************************************************)
\* C1: when both passes are over, every fetched permit is in exactly one of
\* the buckets verified (in permits), permanently failed (failed the first
\* pass and the retry) and excluded (a required field is missing), and the
\* three counts add up to the number of permits fetched.
C1_ExactlyOneBucket ==
  RunEnded =>
    /\ \A i \in 1..N :
         CountIn(permits, i) + PermFailedCount(i)
           + (IF LacksField(data[i]) THEN 1 ELSE 0) = 1
    /\ Len(permits) + (Len(failedChecks) - retrySuccessCount)
         + Cardinality({i \in 1..N : LacksField(data[i])}) = N

\* a finished run with a verified, a permanently failed and an excluded permit
C1_Witness ==
  /\ pc = "done"
  /\ \E i \in 1..N : CountIn(permits, i) = 1
  /\ \E i \in 1..N : PermFailedCount(i) = 1
  /\ \E i \in 1..N : LacksField(data[i])

\* C2: a permit whose first-pass attempt failed gets exactly one more attempt,
\* every other permit gets none, and no permit is ever attempted, or queried
\* at the oracle, more than twice.
C2_SingleRetry ==
  /\ \A i \in 1..N : attempts[i] <= 2 /\ oracleQueries[i] <= 2
  /\ RunEnded => \A i \in 1..N : attempts[i] = IF FirstFailed(i) THEN 2 ELSE 1

\* a finished run in which a permit was queried twice and failed twice
C2_Witness ==
  /\ pc = "done"
  /\ \E i \in 1..N : oracleQueries[i] = 2 /\ BothFailed(i)

\* C3: a permit whose first oracle call failed and whose retry call was
\* answered is in permits exactly once and is not among, nor counted among,
\* the permanently failed.
C3_RetrySuccessVerifiedOnce ==
  RunEnded =>
    \A i \in 1..N :
      (Len(oracleLog[i]) = 2 /\ ~oracleLog[i][1].ok /\ oracleLog[i][2].ok) =>
        /\ CountIn(permits, i) = 1
        /\ PermFailedCount(i) = 0
        /\ finalFailedChecks(failedChecks, retrySuccessCount)
             = Cardinality({j \in 1..N : BothFailed(j)})

\* a finished run with a permit that failed first and succeeded on retry
C3_Witness ==
  /\ pc = "done"
  /\ \E i \in 1..N :
       Len(oracleLog[i]) = 2 /\ ~oracleLog[i][1].ok /\ oracleLog[i][2].ok

\* C4: a permit whose two attempts both failed is permanently failed exactly
\* once, is never in permits, and the totals of the report hold only the
\* amounts of the permits answered as unclaimed.
C4_BothFailedOnceAndNoTotal ==
  \A i \in 1..N :
    BothFailed(i) =>
      /\ PermFailedCount(i) = 1
      /\ CountIn(permits, i) = 0
      /\ TotalsAsAnswered

\* a written report of a run in which a complete, parseable permit failed twice
C4_Witness ==
  /\ pc = "done"
  /\ report # NULL
  /\ \E i \in 1..N : BothFailed(i) /\ Len(oracleLog[i]) = 2

C6_FailureCountsAreFinal ==
  pc = "done" =>
    /\ logged.finalFailed = Cardinality({i \in 1..N : BothFailed(i)})
    /\ report # NULL =>
         report.failedChecks = Cardinality({i \in 1..N : BothFailed(i)})

\* C7: once the first pass has begun the run reaches the end of the final
\* results step, whatever permits fail.
C7_RunReachesFinalResults == (pc \in {"dispatch1", "await1"}) ~> (pc = "done")

\* a finished run in which one permit failed twice and another was verified
C7_Witness ==
  /\ pc = "done"
  /\ \E i \in 1..N : BothFailed(i)
  /\ \E i \in 1..N : CountIn(permits, i) = 1

\* C8: an attempt whose oracle call was answered yields a PermitData whatever
\* the symbol call does; its tokenSymbol is the symbol answered, or "UNKNOWN"
\* when the symbol call failed; the permit is not put in the pending-retry
\* list by that attempt.
C8_SymbolFailureNeverFails ==
  /\ \A i \in 1..N :
       (st1[i] \in {"done", "rejected"} /\ Len(oracleLog[i]) >= 1
          /\ oracleLog[i][1].ok) =>
         /\ results[i] # NULL
         /\ results[i].tokenSymbol = ExpectedSymbol(symbolLog[i])
         /\ FailedIdx(i) = {}
  /\ \A k \in 1..Len(failedChecks) :
       LET i == failedChecks[k] IN
       (st2[k] \in {"done", "rejected"} /\ Len(oracleLog[i]) = 2
          /\ oracleLog[i][2].ok) =>
         /\ retryResults[k] # NULL
         /\ retryResults[k].tokenSymbol = ExpectedSymbol(symbolLog[i])
  /\ RunEnded => \A i \in 1..N : OracleAnswered(i) => CountIn(permits, i) = 1

\* a finished run with a verified permit whose symbol call failed, and one
\* whose symbol call failed on the retry
C8_Witness ==
  /\ pc = "done"
  /\ \E i \in 1..N : symbolLog[i] = <<"fail">> /\ Len(oracleLog[i]) = 1
                      /\ CountIn(permits, i) = 1
  /\ \E i \in 1..N : symbolLog[i] = <<"fail">> /\ Len(oracleLog[i]) = 2

C10_MalformedNonceExcluded ==
  \A i \in 1..N :
    MalformedNonce(data[i]) =>
      /\ oracleQueries[i] = 0
      /\ FailedIdx(i) = {}
      /\ pc = "done" => logged.finalFailed = 0

\* C10, amended: a permit with a malformed nonce makes no oracle call and is
\* never verified; its first attempt puts it in the pending-retry list once,
\* the retry pass attempts it once more, and it ends permanently failed and
\* counted in the final failed checks.
C10_MalformedNonceRetriedOnceThenFailed ==
  \A i \in 1..N :
    MalformedNonce(data[i]) =>
      /\ oracleQueries[i] = 0
      /\ symbolQueries[i] = 0
      /\ CountIn(permits, i) = 0
      /\ st1[i] = "done" => Cardinality(FailedIdx(i)) = 1
      /\ RunEnded => attempts[i] = 2 /\ PermFailedCount(i) = 1
      /\ pc = "done" => logged.finalFailed >= 1

\* a finished run that held a permit with a malformed nonce
C10_Witness ==
  /\ pc = "done"
  /\ \E i \in 1..N : MalformedNonce(data[i]) /\ attempts[i] = 2

\* the run is over: main has returned or thrown
Ended == pc \in {"done", "envError", "aborted", "nodata", "threw"}

\* nothing of the verification, the totals or the report has happened
NothingDone ==
  /\ \A i \in Rows : attempts[i] = 0 /\ oracleQueries[i] = 0 /\ symbolQueries[i] = 0
  /\ permits = <<>>
  /\ logged = NULL
  /\ report = NULL

\* C11 as stated: a run that ends before the final-results step has had a
\* fetch error, and a fetch error ends the run with nothing done.
C11_OnlyFetchErrorEndsEarly ==
  /\ fetched = "error" => Ended /\ NothingDone
  /\ (Ended /\ logged = NULL) => fetched = "error"

\* C11, amended: a fetch error ends the run with no attempt started, no
\* totals and no report; the run ends before the final-results step only
\* then, when the Supabase environment variables are missing, or when the
\* fetch returns neither an error nor data.
C11_FetchErrorAborts ==
  /\ fetched = "error" => Ended /\ NothingDone
  /\ (Ended /\ logged = NULL) =>
       \/ fetched = "error"
       \/ fetched = "nodata"
       \/ pc = "envError"

\* the store holds permits, the fetch returned an error and the run is over
C11_Witness == fetched = "error" /\ N > 0 /\ Ended

\* the sum of the amounts of the permits of ps at the places K
RECURSIVE SumPermits(_, _)
SumPermits(ps, K) ==
  IF K = {} THEN 0
  ELSE LET k == CHOOSE x \in K : TRUE IN
       DecVal(ps[k].amount) + SumPermits(ps, K \ {k})

\* the places of the verified permits that are unclaimed
VerifiedUnclaimed == {k \in 1..Len(permits) : ~permits[k].isClaimed}

\* the totals hold, wallet by wallet, the amounts of the permits of ps at the
\* places K, grouped by addressField, and nothing else
TotalsOfExactly(totals, ps, K, addressField) ==
  /\ DOMAIN totals = {ps[k][addressField] : k \in K}
  /\ \A w \in DOMAIN totals :
       totals[w].grandTotal =
         SumPermits(ps, {k \in K : ps[k][addressField] = w})
  /\ GrandSum(totals) = SumPermits(ps, K)

\* C12: the totals of the report hold exactly the amounts of the verified
\* permits with isClaimed = FALSE, wallet by wallet and in sum, and these
\* are the permits the contract answered as unclaimed; a permit verified as
\* claimed adds to no total.
C12_OnlyUnclaimedFolded ==
  report # NULL =>
    /\ TotalsOfExactly(report.walletToppings, permits, VerifiedUnclaimed,
                       "partnerAddress")
    /\ TotalsOfExactly(report.userRewards, permits, VerifiedUnclaimed,
                       "userAddress")
    /\ SumPermits(permits, VerifiedUnclaimed) = ExpectedTotal

\* a written report of a run with a permit verified as claimed and one
\* verified as unclaimed
C12_Witness ==
  /\ report # NULL
  /\ \E k \in 1..Len(permits) : permits[k].isClaimed
  /\ \E k \in 1..Len(permits) : ~permits[k].isClaimed

\* C13: for every permutation of a list of permits both aggregations return
\* the same maps as for the list itself: same wallets, same userName, same
\* tokenTotals, same grandTotal.
C13_OrderIndependent == calc.op = "permuted" => calc.ofOther = calc.of

\* two maps of totals have the same wallets, and for every wallet the same
\* tokenTotals and the same grandTotal
SameSums(t, u) ==
  /\ DOMAIN t = DOMAIN u
  /\ \A w \in DOMAIN t :
       /\ t[w].tokenTotals = u[w].tokenTotals
       /\ t[w].grandTotal = u[w].grandTotal

\* C14: when one permit of amount a + b is replaced by two permits of amounts
\* a and b that are otherwise equal to it, the tokenTotals and the grandTotal
\* of every wallet and of every user stay the same.
C14_SplitInvariant ==
  calc.op = "split" =>
    /\ SameSums(calc.of.wallets, calc.ofOther.wallets)
    /\ SameSums(calc.of.users, calc.ofOther.users)

\* a list of several permits, one of them split in two positive amounts
C14_Witness ==
  /\ calc.op = "split"
  /\ Len(calc.ps) >= 2
  /\ Len(calc.qs) = Len(calc.ps) + 1
  /\ DecVal(calc.qs[calc.at].amount) > 0
  /\ DecVal(calc.qs[calc.at].amount) < DecVal(calc.ps[calc.at].amount)

\* the (tokenSymbol, network) pair of a permit
PairOf(permit) == <<permit.tokenSymbol, permit.network>>

\* in the totals of every wallet there is one entry for each (tokenSymbol,
\* network) pair of the wallet's permits, and it holds the sum of the amounts
\* of the permits with that pair
PartitionedByPair(totals, ps, addressField) ==
  \A w \in DOMAIN totals :
    LET mine == {k \in 1..Len(ps) : ps[k][addressField] = w}
        pairs == {PairOf(ps[k]) : k \in mine}
        tt == totals[w].tokenTotals
    IN  /\ Cardinality(DOMAIN tt) = Cardinality(pairs)
        /\ \A pr \in pairs :
             \E key \in DOMAIN tt :
               /\ Len(key) = 4
               /\ key[1] = pr[1]
               /\ key[3] = pr[2]
               /\ tt[key] = SumPermits(ps, {k \in mine : PairOf(ps[k]) = pr})

\* C15: within the totals of one wallet, and of one user, the amounts are
\* partitioned by the pair (tokenSymbol, network): permits with the same
\* symbol on different networks are in different entries, permits with the
\* same symbol and network are summed in one entry.
C15_PartitionedBySymbolAndNetwork ==
  calc.op = "totals" =>
    /\ PartitionedByPair(calc.of.wallets, calc.ps, "partnerAddress")
    /\ PartitionedByPair(calc.of.users, calc.ps, "userAddress")

\* the totals of a list in which one wallet has two permits with the same
\* symbol and network and one with the same symbol on another network
C15_Witness ==
  /\ calc.op = "totals"
  /\ \E i, j, k \in 1..Len(calc.ps) :
       /\ i # j
       /\ calc.ps[i].partnerAddress = calc.ps[j].partnerAddress
       /\ calc.ps[i].partnerAddress = calc.ps[k].partnerAddress
       /\ PairOf(calc.ps[i]) = PairOf(calc.ps[j])
       /\ calc.ps[i].tokenSymbol = calc.ps[k].tokenSymbol
       /\ calc.ps[i].network # calc.ps[k].network

\* the contract answered a nonceBitmap call of row i with this word
AnsweredWord(i, word) ==
  \E n \in 1..Len(oracleLog[i]) : oracleLog[i][n] = [ok |-> TRUE, word |-> word]

\* the token contract answered the last symbol call of row i with symbol
AnsweredSymbol(i, symbol) ==
  symbolLog[i] # <<>> /\ symbolLog[i][Len(symbolLog[i])] = symbol

\* the places of row i in the verified list
PlacesIn(ps, i) == {k \in 1..Len(ps) : ps[k].src = i}

\* a finished run verified every permit of nonce 0 whose word 0 is 0 as
\* unclaimed and every permit of nonce 256 whose word 1 has bit 0 set as
\* claimed, and A's wallet total has under key the amounts of the permits
\* with symbol "T" answered as unclaimed, when there is one
EndToEnd(key) ==
  pc = "done" =>
    /\ \A i \in 1..N :
         (data[i].nonce = <<"0">> /\ AnsweredWord(i, 0)) =>
           /\ Cardinality(PlacesIn(permits, i)) = 1
           /\ \A k \in PlacesIn(permits, i) : ~permits[k].isClaimed
    /\ \A i \in 1..N :
         (data[i].nonce = <<"2", "5", "6">> /\ AnsweredWord(i, 1)) =>
           /\ Cardinality(PlacesIn(permits, i)) = 1
           /\ \A k \in PlacesIn(permits, i) : permits[k].isClaimed
    /\ LET mine == {i \in 1..N : AnsweredUnclaimed(i) /\ AnsweredSymbol(i, "T")} IN
       mine # {} =>
         /\ report # NULL
         /\ "A" \in DOMAIN report.walletToppings
         /\ key \in DOMAIN report.walletToppings["A"].tokenTotals
         /\ report.walletToppings["A"].tokenTotals[key] = SumAmounts(mine)

\* C16 as stated: the permit of nonce 0 and amount 500 whose word 0 is 0 is
\* verified as unclaimed and adds 500 to A's wallet total under the key
\* "T (1)"; the permit of nonce 256 whose word 1 has bit 0 set is verified
\* as claimed and adds nothing.
C16_EndToEndKeyT1 == EndToEnd(<<"T", " (", 1, ")">>)

\* C16, amended: the same, with the key "T (Network ID: 1)".
C16_EndToEndKeyNetworkId == EndToEnd(<<"T", " (Network ID: ", 1, ")">>)

\* a written report of a run with the permit of nonce 0 answered with word 0
\* and symbol "T", and the permit of nonce 256 answered with word 1
C16_Witness ==
  /\ pc = "done"
  /\ report # NULL
  /\ data = << [nonce |-> <<"0">>, amount |-> <<"5", "0", "0">>,
                partnerAddress |-> "A", tokenAddress |-> "T1",
                userAddress |-> "U1", userId |-> 7, network |-> 1],
               [nonce |-> <<"2", "5", "6">>, amount |-> <<"1", "0", "0", "0">>,
                partnerAddress |-> "A", tokenAddress |-> "T1",
                userAddress |-> "U1", userId |-> 7, network |-> 1] >>
  /\ AnsweredWord(1, 0) /\ AnsweredSymbol(1, "T")
  /\ AnsweredWord(2, 1)
  /\ report.walletToppings["A"].grandTotal = 500

\* C17: for a nonce n given as a decimal string or as a number, nonceBitmap
\* returns wordPos = n >> 8 and bitPos = n & 255 with 0 <= bitPos <= 255, and
\* (wordPos << 8) | bitPos is n again.
C17_WordBitRoundTrip ==
  (calc.op = "wordbit" /\ calc.typ \in {"string", "number"} /\ ~calc.frac) =>
    /\ calc.out.ok
    /\ calc.out.bitPos \in 0..255
    /\ calc.out.wordPos = calc.n \div 256
    /\ calc.out.bitPos = calc.n % 256
    /\ calc.out.wordPos * 256 + calc.out.bitPos = calc.n

\* nonceBitmap was called with a nonce beyond word 0 whose bit is not bit 0
C17_Witness ==
  /\ calc.op = "wordbit"
  /\ calc.typ = "string"
  /\ ~calc.frac
  /\ calc.n > 256
  /\ calc.out.wordPos > 0
  /\ calc.out.bitPos > 0

\* C18: for every bitmap word and bit position, the claimed test of
\* isNonceClaimed is true exactly when that bit of the word is 1.
C18_ClaimedTestIsBitSet ==
  calc.op = "claimed" => (calc.isClaimed <=> BitSet(calc.bitmap, calc.bitPos))

\* the claimed test was applied to a word with several bits, some of them
\* set, at a bit that is set
C18_Witness ==
  /\ calc.op = "claimed"
  /\ calc.bitmap = 42
  /\ calc.bitPos = 3
  /\ calc.isClaimed

\* C19: a nonce string "N.f" is parsed as N: nonceBitmap does not throw and
\* returns the wordPos and bitPos it returns for "N", those of the number N.
C19_FractionTruncated ==
  (calc.op = "wordbit" /\ calc.frac) =>
    /\ calc.out.ok
    /\ calc.outWhole.ok
    /\ calc.out.wordPos = calc.outWhole.wordPos
    /\ calc.out.bitPos = calc.outWhole.bitPos
    /\ calc.out.wordPos * 256 + calc.out.bitPos = calc.n

\* nonceBitmap was called with "300.99"
C19_Witness ==
  /\ calc.op = "wordbit"
  /\ calc.frac
  /\ calc.nonce = <<"3", "0", "0", ".", "9", "9">>
  /\ calc.out.wordPos = 1

\* the first pass has called processPermit for row i
Started(i) == attempts[i] >= 1

\* a call awaited by some attempt has completed
SomeCompletion ==
  \E i \in 1..N : oracleLog[i] # <<>> \/ symbolLog[i] # <<>>

CountOf(log, kind) == Cardinality({n \in 1..Len(log) : log[n] = kind})

\* the first-pass attempt of row i is over
AttemptOver(i) == st1[i] = "done"

\* the first pass is over: its Promise.all has settled
FirstPassOver == pc \in {"dispatch2", "await2", "final", "done"}

\* completed.count is the number of attempts that are over, at most the
\* number of permits, and all of them once the first pass is over
CounterCounts ==
  /\ completed = Cardinality({i \in 1..N : AttemptOver(i)})
  /\ completed <= N
  /\ FirstPassOver => completed = N

MetError(i) ==
  \/ NoEndpoint(data[i])
  \/ MalformedNonce(data[i])
  \/ ~LacksField(data[i]) /\ oracleLog[i] # <<>> /\ ~oracleLog[i][1].ok

\* C22: whatever the order in which the awaited calls of the first-pass tasks
\* return, no push to failedChecks and no increment of completed.count is
\* lost: at any time the list holds exactly the permits whose attempt is over
\* and met an error, and completed.count is the number of attempts that are
\* over; after the first pass the list holds each failed permit exactly once
\* and the counter is the number of permits.
C22_NoLostUpdate ==
  /\ \A i \in 1..N :
       Cardinality(FailedIdx(i)) = IF AttemptOver(i) /\ MetError(i) THEN 1 ELSE 0
  /\ Len(failedChecks) = Cardinality({i \in 1..N : AttemptOver(i) /\ MetError(i)})
  /\ completed = Cardinality({i \in 1..N : AttemptOver(i)})
  /\ FirstPassOver =>
       /\ \A i \in 1..N : AttemptOver(i) /\ attempts[i] >= 1
       /\ completed = N

\* the first pass is over; the calls of three tasks failed, and they returned
\* in another order than the tasks were started in
C22_Witness ==
  /\ FirstPassOver
  /\ Len(failedChecks) = 3
  /\ failedChecks[1] > failedChecks[2]
  /\ \A i \in 1..N : oracleLog[i] # <<>> /\ ~oracleLog[i][1].ok

\* C23: over any sequence of getContract calls at most one provider is
\* constructed per network: none before the first call that names the
\* network, one at that call (when the network has an endpoint), and no
\* other at any later call, which finds the provider in the cache.
C23_OneProviderPerNetwork ==
  calc.op = "cache" =>
    \A n \in CacheNetworks :
      /\ calc.created[n] <= 1
      /\ n \notin calc.named => calc.created[n] = 0 /\ n \notin providerCache
      /\ n \in calc.named /\ ~getProviderThrows(n, {}) =>
           calc.created[n] = 1 /\ n \in providerCache

\* four calls, three of them for three contracts on network 1
C23_Witness ==
  /\ calc.op = "cache"
  /\ calc.calls = 4
  /\ {<<a, 1>> : a \in CacheAddresses} \subseteq contractCache
  /\ calc.created[1] = 1

\* the wallets given are, letter case and blanks aside, the default ones
GivenIsDefault(args) ==
  /\ {toLowerCase(trim(args[k])) : k \in 1..Len(args)} \ {<<>>} =
       {toLowerCase(e) : e \in DefaultAllowlist}

\* C24: with an allowlist, a permit is kept exactly when its partner address
\* equals some entry of the allowlist, letter case aside; wallets given in
\* another letter case than the default ones select the permits the default
\* allowlist selects.
C24_CaseInsensitiveAllowlist ==
  calc.op = "selected" =>
    /\ \A a \in StoreAddresses :
         a \in calc.kept <=>
           \E e \in calc.allowlist : toLowerCase(e) = toLowerCase(a)
    /\ GivenIsDefault(calc.args) => calc.kept = calc.keptByDefault

\* the display name the claim gives a row
DisplayName(row) ==
  CASE row.userId = 0 -> UnknownUser
    [] row.userId = 7 -> <<"a", "l", "i", "c", "e">>
    [] OTHER -> <<"u", "s", "e", "r", "-">> \o ToDecimal(row.userId)

\* C25: a verified permit carries the name the resolver gave for its user
\* id, "user-{id}" when it has a user id and the resolver gave no name, and
\* "Unknown User" when it has no user id; the user rewards carry the name of
\* a permit of the wallet; a permit whose user was not resolved is verified
\* as soon as the contract answers for it.
C25_DisplayName ==
  /\ \A k \in 1..Len(permits) : permits[k].userName = DisplayName(data[permits[k].src])
  /\ RunEnded =>
       \A i \in 1..N : OracleAnswered(i) => CountIn(permits, i) = 1
  /\ report # NULL =>
       \A w \in DOMAIN report.userRewards :
         \E k \in 1..Len(permits) :
           /\ permits[k].userAddress = w
           /\ ~permits[k].isClaimed
           /\ report.userRewards[w].userName = DisplayName(data[permits[k].src])

\* a report over a permit of a user whose request to the resolver failed and
\* a permit with no user id
C25_Witness ==
  /\ report # NULL
  /\ N = 2
  /\ data[1].userId = 8
  /\ data[2].userId = 0
  /\ DOMAIN report.userRewards = {"U2", "U4"}
  /\ report.userRewards["U2"].userName = <<"u", "s", "e", "r", "-", "8">>
  /\ report.userRewards["U4"].userName = UnknownUser

\* a permit of a user whose answer had no login is verified
C25_WitnessNoLogin ==
  /\ RunEnded
  /\ \E k \in 1..Len(permits) :
       /\ data[permits[k].src].userId = 9
       /\ permits[k].userName = <<"u", "s", "e", "r", "-", "9">>

\* the attempts of both passes that have started and not completed
InFlight ==
  {i \in 1..N : attempts[i] >= 1 /\ st1[i] # "done"}
    \cup {i \in 1..N : \E k \in 1..Len(failedChecks) :
            failedChecks[k] = i /\ st2[k] \notin {"idle", "done"}}

\* C26: permits are processed in batches of 20: at most 20 attempts are in
\* flight, and no attempt of a later batch has started while an attempt of an
\* earlier batch has not completed.
C26_BatchesOfTwenty ==
  /\ Cardinality(InFlight) <= batchSize
  /\ \A i \in 1..N : \A j \in 1..N :
       (batchOf(i) < batchOf(j) /\ attempts[j] >= 1) => st1[i] = "done"

\* the rows of a store of n rows, in the order of the query
StoreRowsInOrder(n) == [k \in 1..n |-> k - 1]

PageReturned == calc.phase = "returned"

\* what C27 says of a call of fetchAllPermits
PagesAsClaimed ==
  /\ \A k \in 1..Len(calc.requests) :
       calc.requests[k] = [from |-> 1000 * (k - 1), to |-> 1000 * (k - 1) + 999]
  /\ \A k \in 1..Len(calc.answers) :
       (calc.answers[k].ok /\ calc.answers[k].len < 1000) =>
          (PageReturned /\ k = Len(calc.requests))
  /\ (PageReturned /\ calc.result.error = Null) =>
       /\ ~calc.result.dataIsNull
       /\ calc.result.data = StoreRowsInOrder(calc.storeRows)
       /\ calc.answers[Len(calc.answers)].len < 1000

C29_ErrorDropsRows ==
  /\ \A k \in 1..Len(calc.answers) :
       ~calc.answers[k].ok =>
          /\ PageReturned
          /\ k = Len(calc.requests)
          /\ calc.result.dataIsNull
          /\ calc.result.error = calc.answers[k].error
  /\ ~(~calc.result.dataIsNull /\ calc.result.error # Null)

\* the second request failed after the first one fetched a full page
C29_Witness ==
  /\ PageReturned
  /\ Len(calc.requests) = 2
  /\ calc.answers[1].ok
  /\ ~calc.answers[2].ok
  /\ Len(calc.allPermits) = 1000
  /\ calc.result.dataIsNull
  /\ calc.result.error = "timeout"

\* the phase of the run: 0 Collecting, 1 FirstPass, 2 RetryPass, 3 Done
PhaseOf(at) ==
  CASE at \in {"start", "fetch"} -> 0
    [] at \in {"dispatch1", "await1"} -> 1
    [] at \in {"dispatch2", "await2"} -> 2
    [] OTHER -> 3

RetryStarted == \E k \in Rows : st2[k] # "idle"

FirstPassCompleted == \A i \in 1..N : st1[i] = "done"

RetryCompleted == \A k \in 1..Len(failedChecks) : st2[k] = "done"

AggregationStarted == pc \in {"final", "done"} \/ logged # NULL \/ report # NULL

PhasesInOrder ==
  /\ RetryStarted => FirstPassCompleted
  /\ PhaseOf(pc) = 2 => (Len(failedChecks) > 0 /\ FirstPassCompleted)
  /\ AggregationStarted => (FirstPassCompleted /\ RetryCompleted)

PhaseStep ==
  /\ PhaseOf(pc') >= PhaseOf(pc)
  /\ (PhaseOf(pc') = 1 /\ PhaseOf(pc) # 1) => PhaseOf(pc) = 0
  /\ (PhaseOf(pc') = 2 /\ PhaseOf(pc) # 2) =>
       (PhaseOf(pc) = 1 /\ Len(failedChecks) > 0)

\* C28: the phases advance in the order Collecting, FirstPass, RetryPass,
\* Done and never go back; no retry attempt starts before every first-pass
\* attempt has completed, RetryPass is entered only with a non-empty list of
\* failed checks, and aggregation starts only after every retry attempt has
\* completed.
C28_PhasesInOrder == []PhasesInOrder /\ [][PhaseStep]_vars

\* a run that went through the retry pass and wrote its report
C28_Witness ==
  /\ pc = "done"
  /\ report # NULL
  /\ Len(failedChecks) > 0
  /\ RetryStarted
  /\ RetryCompleted

\* the sum of the values of a map of token totals
RECURSIVE SumOfTotals(_)
SumOfTotals(tokenTotals) ==
  IF DOMAIN tokenTotals = {} THEN 0
  ELSE LET key == CHOOSE x \in DOMAIN tokenTotals : TRUE IN
       tokenTotals[key]
         + SumOfTotals([x \in DOMAIN tokenTotals \ {key} |-> tokenTotals[x]])

GrandTotalsAddUp(totals) ==
  \A w \in DOMAIN totals : totals[w].grandTotal = SumOfTotals(totals[w].tokenTotals)

\* the maps of a list: every entry adds up and every wallet of the list has
\* an entry
TotalsComplete(ps, of) ==
  /\ GrandTotalsAddUp(of.wallets)
  /\ GrandTotalsAddUp(of.users)
  /\ \A k \in 1..Len(ps) :
       /\ ps[k].partnerAddress \in DOMAIN of.wallets
       /\ ps[k].userAddress \in DOMAIN of.users

\* C30: in the maps calculateWalletTotals and calculateUserWalletTotals
\* return for a list of permits, the grandTotal of every entry is the sum of
\* the values of its tokenTotals, and every wallet a permit of the list names
\* has an entry.
C30_GrandTotalIsSum ==
  /\ calc.op \in {"totals", "permuted", "split"} => TotalsComplete(calc.ps, calc.of)
  /\ calc.op \in {"permuted", "split"} => TotalsComplete(calc.qs, calc.ofOther)

\* three permits of one user under three token keys, paid by two partners
C30_Witness ==
  /\ calc.op = "totals"
  /\ Len(calc.ps) = 3
  /\ DOMAIN calc.of.wallets = {"A", "B"}
  /\ DOMAIN calc.of.users = {"U1"}
  /\ Cardinality(DOMAIN calc.of.users["U1"].tokenTotals) = 3
  /\ calc.of.users["U1"].grandTotal = 10

\* the token keys of a map of totals
KeysOf(totals) == UNION {DOMAIN totals[w].tokenTotals : w \in DOMAIN totals}

\* the sum of the totals of a token key over the wallets W of a map
RECURSIVE SumKey(_, _, _)
SumKey(totals, key, W) ==
  IF W = {} THEN 0
  ELSE LET w == CHOOSE x \in W : TRUE
           own == IF key \in DOMAIN totals[w].tokenTotals
                  THEN totals[w].tokenTotals[key] ELSE 0
       IN  own + SumKey(totals, key, W \ {w})

\* the two maps of a list carry the same sums
MapsAddUpAlike(of) ==
  /\ SumGrand(of.wallets, DOMAIN of.wallets) = SumGrand(of.users, DOMAIN of.users)
  /\ KeysOf(of.wallets) = KeysOf(of.users)
  /\ \A key \in KeysOf(of.wallets) \cup KeysOf(of.users) :
       SumKey(of.wallets, key, DOMAIN of.wallets)
         = SumKey(of.users, key, DOMAIN of.users)

\* C31: for one list of unclaimed permits, the grand totals of the map by
\* partner add up to what the grand totals of the map by user add up to, and
\* so do the totals of every token key.
C31_MapsAgree ==
  /\ calc.op \in {"totals", "permuted", "split"} => MapsAddUpAlike(calc.of)
  /\ calc.op \in {"permuted", "split"} => MapsAddUpAlike(calc.ofOther)

\* two partners paid two users under two token keys; both maps add up to 13
C31_Witness ==
  /\ calc.op = "totals"
  /\ DOMAIN calc.of.wallets = {"A", "B"}
  /\ DOMAIN calc.of.users = {"U1", "U2"}
  /\ Cardinality(KeysOf(calc.of.wallets)) = 2
  /\ calc.of.wallets["A"].grandTotal # calc.of.users["U1"].grandTotal
  /\ calc.of.wallets["A"].grandTotal # calc.of.users["U2"].grandTotal
  /\ SumGrand(calc.of.wallets, {"A", "B"}) = 13
  /\ SumGrand(calc.of.users, {"U1", "U2"}) = 13

\* the rows of the store's answer that lack a required field
ExcludedRows == {i \in 1..N : LacksField(data[i])}

\* C32: in the final results claimed + unclaimed is the number of verified
\* permits, processed + final failed checks + excluded is the number of
\* permits fetched, and the final failed checks are not negative.
C32_SummaryCountsAddUp ==
  logged # NULL =>
    /\ logged.processed = Len(permits)
    /\ logged.claimed + logged.unclaimed = logged.processed
    /\ logged.processed + logged.finalFailed + Cardinality(ExcludedRows) = N
    /\ logged.finalFailed >= 0
    /\ logged.finalFailed = Len(failedChecks) - retrySuccessCount

\* final results over a permit verified by its retry, a permit that failed
\* twice and an excluded permit
C32_Witness ==
  /\ logged # NULL
  /\ N = 3
  /\ retrySuccessCount = 1
  /\ logged.processed = 1
  /\ logged.finalFailed = 1
  /\ Cardinality(ExcludedRows) = 1

\* the amount is a string BigNumber.from throws on
Unparsable(amount) == ~BigNumberFrom(amount).ok

\* the permits of a list whose amounts parse
ParsedOnly(ps) == SelectSeq(ps, LAMBDA permit : ~Unparsable(permit.amount))

\* the total of a token key of a wallet in a map, 0 when there is none
TotalAt(totals, w, key) ==
  IF w \in DOMAIN totals /\ key \in DOMAIN totals[w].tokenTotals
  THEN totals[w].tokenTotals[key] ELSE 0

GrandAt(totals, w) == IF w \in DOMAIN totals THEN totals[w].grandTotal ELSE 0

\* the sums of map t are those of map u, whatever entries t has beyond u's
SumsUnchanged(t, u) ==
  /\ DOMAIN u \subseteq DOMAIN t
  /\ \A w \in DOMAIN t :
       /\ GrandAt(t, w) = GrandAt(u, w)
       /\ \A key \in DOMAIN t[w].tokenTotals : TotalAt(t, w, key) = TotalAt(u, w, key)

\* C33: a permit whose amount does not parse counts 0: the maps of a list
\* have the sums of the list without such permits, and still have an entry
\* for the wallet and the token key of every such permit.
C33_UnparsableAmountIsZero ==
  calc.op = "summed" =>
    /\ SumsUnchanged(calc.of.wallets, bothTotals(ParsedOnly(calc.ps)).wallets)
    /\ SumsUnchanged(calc.of.users, bothTotals(ParsedOnly(calc.ps)).users)
    /\ \A k \in 1..Len(calc.ps) :
         Unparsable(calc.ps[k].amount) =>
           /\ calc.ps[k].partnerAddress \in DOMAIN calc.of.wallets
           /\ tokenKeyOf(calc.ps[k])
                \in DOMAIN calc.of.wallets[calc.ps[k].partnerAddress].tokenTotals
           /\ calc.ps[k].userAddress \in DOMAIN calc.of.users
           /\ tokenKeyOf(calc.ps[k])
                \in DOMAIN calc.of.users[calc.ps[k].userAddress].tokenTotals

\* a permit of amount "1.5" to partner B in token X after a permit of amount
\* 7 to partner A in token T: B has an entry of total 0
C33_Witness ==
  /\ calc.op = "summed"
  /\ Len(calc.ps) = 2
  /\ calc.ps[1].amount = <<"7">>
  /\ calc.ps[2].amount = <<"1", ".", "5">>
  /\ DOMAIN calc.of.wallets = {"A", "B"}
  /\ calc.of.wallets["B"].grandTotal = 0
  /\ calc.of.wallets["A"].grandTotal = 7
  /\ calc.of.users["U1"].grandTotal = 7
  /\ Cardinality(DOMAIN calc.of.users["U1"].tokenTotals) = 2

\* a verified permit is unclaimed
SomeVerifiedUnclaimed == \E k \in 1..Len(permits) : ~permits[k].isClaimed

\* C34: no totals are computed and no report is written before the run has
\* ended, and a run that has ended has written a report exactly when a
\* verified permit is unclaimed; with no such permit there is none.
C34_ReportIffUnclaimed ==
  /\ report # NULL => (pc = "done" /\ SomeVerifiedUnclaimed)
  /\ Ended => (report # NULL <=> SomeVerifiedUnclaimed)

\* a run of three permits ended without a report: one was verified as
\* claimed, one failed twice, one was excluded
C34_Witness ==
  /\ pc = "done"
  /\ N = 3
  /\ report = NULL
  /\ logged # NULL
  /\ Len(permits) = 1
  /\ permits[1].isClaimed
  /\ logged.finalFailed = 1
  /\ Cardinality(ExcludedRows) = 1

\* a run ended with a report over its one unclaimed permit
C34_WitnessReport ==
  /\ pc = "done"
  /\ report # NULL
  /\ Len(permits) = 2
  /\ Len(unclaimedPermits) = 1

\* the retries that gave a PermitData, and those that gave null
RetrySucceeded == {k \in 1..Len(failedChecks) : retryResults[k] # NULL}

RetryFailed == {k \in 1..Len(failedChecks) : retryResults[k] = NULL}

\* C35: every permit of the list of failed checks has all required fields, so
\* no retry leaves through the missing-field branch; when the retry pass is
\* over every retry was counted once, as a success or as a failure, and the
\* successes are those the counter counts.
C35_RetryOnlyCompleteRows ==
  /\ \A k \in 1..Len(failedChecks) :
       /\ ~LacksField(data[failedChecks[k]])
       /\ ~MissingRequired(data[failedChecks[k]])
  /\ RunEnded =>
       /\ retrySuccessCount = Cardinality(RetrySucceeded)
       /\ retrySuccessCount + Cardinality(RetryFailed) = Len(failedChecks)
       /\ retryCompleted = Len(failedChecks)
       /\ \A k \in RetryFailed : ~OracleAnswered(failedChecks[k])

\* the retry pass over two failed permits, one verified and one failed
\* again, of a run that excluded its third permit
C35_Witness ==
  /\ RunEnded
  /\ N = 3
  /\ Cardinality(ExcludedRows) = 1
  /\ Len(failedChecks) = 2
  /\ Cardinality(RetrySucceeded) = 1
  /\ Cardinality(RetryFailed) = 1

\* the ids a call asked for
Requested == {calc.userIds[k] : k \in 1..Len(calc.userIds)}

\* C36: the map of a call has an entry for every id asked for: the cached
\* name for an id cached before the call, the login for an id looked up with
\* success, "user-{id}" for an id whose lookup failed; a failed lookup leaves
\* the cache as it was, so the cache holds logins only.
C36_EntryForEveryId ==
  calc.op = "github" =>
    /\ DOMAIN calc.results = Requested
    /\ \A id \in Requested :
         calc.results[id] =
           IF id \in DOMAIN calc.before THEN calc.before[id]
           ELSE IF id \in calc.failing
                THEN <<"u", "s", "e", "r", "-">> \o ToDecimal(id)
                ELSE gitLogin(id)
    /\ DOMAIN calc.cache =
         DOMAIN calc.before \cup (Requested \ calc.failing)
    /\ \A id \in DOMAIN calc.cache : calc.cache[id] = gitLogin(id)

\* a second call for twelve ids: one was cached by the first call, the
\* others were looked up in two batches, and the lookup of the last failed
C36_Witness ==
  /\ calc.op = "github"
  /\ calc.calls = 2
  /\ Len(calc.userIds) = 12
  /\ DOMAIN calc.before = {7}
  /\ calc.failing = {12}
  /\ calc.results[12] = <<"u", "s", "e", "r", "-", "1", "2">>
  /\ calc.results[7] = <<"a", "l", "i", "c", "e">>
  /\ calc.results[11] = <<"g", "h", "1", "1">>
  /\ DOMAIN calc.cache = 1..11

\* the unclaimed verified permits of a wallet with a symbol on a network
PaidIn(field, w, symbol, network) ==
  {k \in 1..Len(permits) :
     /\ ~permits[k].isClaimed
     /\ permits[k][field] = w
     /\ permits[k].tokenSymbol = symbol
     /\ permits[k].network = network}

RECURSIVE SumPaid(_)
SumPaid(K) ==
  IF K = {} THEN 0
  ELSE LET k == CHOOSE x \in K : TRUE IN
       DecVal(permits[k].amount) + SumPaid(K \ {k})

\* the totals of a map are kept by symbol and network alone
KeyedBySymbolAndNetwork(totals, field) ==
  \A w \in DOMAIN totals :
    /\ \A k \in 1..Len(permits) :
         (~permits[k].isClaimed /\ permits[k][field] = w) =>
            /\ <<permits[k].tokenSymbol, " (Network ID: ", permits[k].network, ")">>
                 \in DOMAIN totals[w].tokenTotals
            /\ totals[w].tokenTotals[<<permits[k].tokenSymbol, " (Network ID: ",
                                       permits[k].network, ")">>]
                 = SumPaid(PaidIn(field, w, permits[k].tokenSymbol,
                                  permits[k].network))
    /\ \A key \in DOMAIN totals[w].tokenTotals :
         PaidIn(field, w, key[1], key[3]) # {}

\* C37: the totals of a wallet are kept by symbol and network, never by
\* token address: unclaimed permits in different tokens of one network whose
\* symbol calls failed add up in the one entry "UNKNOWN" of that network.
C37_UnknownSymbolsMerge ==
  report # NULL =>
    /\ KeyedBySymbolAndNetwork(report.walletToppings, "partnerAddress")
    /\ KeyedBySymbolAndNetwork(report.userRewards, "userAddress")

\* the report over a permit in T1 and a permit in T2 of network 1 whose
\* symbol calls both failed: one entry of 5 + 3
C37_Witness ==
  /\ report # NULL
  /\ Len(permits) = 2
  /\ permits[1].tokenAddress # permits[2].tokenAddress
  /\ permits[1].network = 1
  /\ permits[2].network = 1
  /\ permits[1].tokenSymbol = UNKNOWN
  /\ permits[2].tokenSymbol = UNKNOWN
  /\ DOMAIN report.walletToppings["A"].tokenTotals
       = {<<UNKNOWN, " (Network ID: ", 1, ")">>}
  /\ report.walletToppings["A"].tokenTotals[<<UNKNOWN, " (Network ID: ", 1, ")">>] = 8
  /\ report.userRewards["U1"].tokenTotals[<<UNKNOWN, " (Network ID: ", 1, ")">>] = 8

=============================================================================
